---- MODULE Spec2Model ----
(***************************************************************************)
(* A model of the wikitext parser of wiki2md (src/src/parse).              *)
(*                                                                         *)
(* A string is a sequence of one-character strings.  Offsets are 0-based   *)
(* byte offsets, as in the Rust source: Slice(s, a, b) is s[a..b].  The    *)
(* model reads ASCII text only, so one character is one byte.              *)
(* An Option is a record: None, or Some(v) with field val.                 *)
(***************************************************************************)
EXTENDS Integers, Sequences, FiniteSets, TLC

VARIABLES src, lines, i, pc, blocks, categories, redirect, diagnostics, step, json, back,
          reading, remaining_depth, md_file, write_opts, md_body

vars == <<pc, i, remaining_depth, step, src, lines, blocks, categories, redirect, diagnostics,
          json, back, reading, md_file, write_opts, md_body>>

----------------------------------------------------------------------------
(* Strings *)

None == [some |-> FALSE]
Some(v) == [some |-> TRUE, val |-> v]

Min(S) == CHOOSE x \in S : \A y \in S : x <= y
Max(S) == CHOOSE x \in S : \A y \in S : x >= y
\* The least (greatest) element of S, or d when S is empty
MinOr(S, d) == IF S = {} THEN d ELSE Min(S)
MaxOr(S, d) == IF S = {} THEN d ELSE Max(S)

Slice(s, a, b) == SubSeq(s, a + 1, b)
From(s, a) == SubSeq(s, a + 1, Len(s))
StartsWith(s, p) == Len(p) <= Len(s) /\ SubSeq(s, 1, Len(p)) = p
EndsWith(s, p) == Len(p) <= Len(s) /\ SubSeq(s, Len(s) - Len(p) + 1, Len(s)) = p
Chars(s) == {s[k] : k \in 1..Len(s)}
Repeat(c, n) == [k \in 1..n |-> c]
StartsAt(s, k, p) == k + Len(p) <= Len(s) /\ SubSeq(s, k + 1, k + Len(p)) = p

\* str::find: the offset of the first occurrence of p in s, -1 when there is none.
Find(s, p) == MinOr({k \in 0..(Len(s) - Len(p)) : StartsAt(s, k, p)}, -1)

\* s[from..].find(p), relative to from.
FindFrom(s, from, p) == Find(From(s, from), p)

UpperChars == <<"A","B","C","D","E","F","G","H","I","J","K","L","M",
                "N","O","P","Q","R","S","T","U","V","W","X","Y","Z">>
LowerChars == <<"a","b","c","d","e","f","g","h","i","j","k","l","m",
                "n","o","p","q","r","s","t","u","v","w","x","y","z">>
IsUpper(c) == \E k \in 1..26 : UpperChars[k] = c
LowerChar(c) == IF IsUpper(c) THEN LowerChars[CHOOSE k \in 1..26 : UpperChars[k] = c] ELSE c
UpperChar(c) ==
    IF \E k \in 1..26 : LowerChars[k] = c
    THEN UpperChars[CHOOSE k \in 1..26 : LowerChars[k] = c] ELSE c

\* str::to_ascii_lowercase, str::to_ascii_uppercase
ToLower(s) == [k \in 1..Len(s) |-> LowerChar(s[k])]
ToUpper(s) == [k \in 1..Len(s) |-> UpperChar(s[k])]
EqIgnoreCase(a, b) == ToLower(a) = ToLower(b)

\* char::is_whitespace, on ASCII
IsWhitespace(c) == c \in {" ", "\t", "\n", "\r", "\f"}

\* The number of leading characters of s that lie in the set C.
LeadCount(s, C) == MinOr({k \in 1..Len(s) : s[k] \notin C}, Len(s) + 1) - 1
\* The length of s without its trailing characters that lie in C.
TrailKeep(s, C) == MaxOr({k \in 1..Len(s) : s[k] \notin C}, 0)

WhiteChars == {" ", "\t", "\n", "\r", "\f"}
AlphaChars == {UpperChars[k] : k \in 1..26} \cup {LowerChars[k] : k \in 1..26}

TrimStart(s) == From(s, LeadCount(s, WhiteChars))
TrimEnd(s) == SubSeq(s, 1, TrailKeep(s, WhiteChars))
Trim(s) == TrimEnd(TrimStart(s))
\* str::trim_start_matches / trim_end_matches with a set of characters
TrimStartMatches(s, C) == From(s, LeadCount(s, C))
TrimEndMatches(s, C) == SubSeq(s, 1, TrailKeep(s, C))
\* str::trim_end_matches("/>"): strips the two-character suffix repeatedly
RECURSIVE TrimEndSlashGt(_)
TrimEndSlashGt(s) ==
    IF EndsWith(s, <<"/", ">">>) THEN TrimEndSlashGt(SubSeq(s, 1, Len(s) - 2)) ELSE s

\* str::split_once(c)
SplitOnce(s, c) ==
    LET At(p) == IF p = -1 THEN None ELSE Some(<<Slice(s, 0, p), From(s, p + 1)>>)
    IN At(Find(s, <<c>>))

Span(a, b) == <<a, b>>
\* Span::cover
Cover(a, b) ==
    <<IF a[1] <= b[1] THEN a[1] ELSE b[1], IF a[2] >= b[2] THEN a[2] ELSE b[2]>>

----------------------------------------------------------------------------
(* Lines *)

\* collect_lines: one LineRange per "\n"-terminated line, and one for the rest.
collect_lines(s) ==
    LET nl == {k \in 1..Len(s) : s[k] = "\n"}
        n == Cardinality(nl)
        \* the 1-based position of the j-th newline
        pos(j) == CHOOSE k \in nl : Cardinality({m \in nl : m < k}) = j - 1
        startOf(j) == IF j = 1 THEN 0 ELSE pos(j - 1)
    IN [j \in 1..(n + 1) |->
          IF j <= n
          THEN [start |-> startOf(j), end |-> pos(j) - 1, end_with_newline |-> pos(j)]
          ELSE [start |-> startOf(j), end |-> Len(s), end_with_newline |-> Len(s)]]

strip_cr(s) == IF Len(s) > 0 /\ s[Len(s)] = "\r" THEN SubSeq(s, 1, Len(s) - 1) ELSE s

LineRaw(s, line) == Slice(s, line.start, line.end)
LineText(s, line) == strip_cr(LineRaw(s, line))
line_trimmed_start(s, line) == TrimStart(strip_cr(LineRaw(s, line)))

----------------------------------------------------------------------------
(* util.rs: HTML attributes *)

HtmlAttr(name, value) == [name |-> name, value |-> value, span |-> None]

\* parse_html_attrs: name, name=token, name="quoted", name='quoted' ...
RECURSIVE parse_html_attrs(_)
parse_html_attrs(s0) ==
    LET Quoted(name, q, s4, end_q) ==
            IF end_q # -1
            THEN <<HtmlAttr(name, Some(Slice(s4, 0, end_q)))>>
                     \o parse_html_attrs(From(s4, end_q + 1))
            ELSE <<HtmlAttr(name, Some(s4))>>
        Token(name, s3, end) ==
            <<HtmlAttr(name, Some(Slice(s3, 0, end)))>> \o parse_html_attrs(From(s3, end))
        Value(name, s3) ==
            IF s3 = <<>> THEN <<HtmlAttr(name, None)>>
            ELSE IF s3[1] \in {"\"", "'"}
            THEN Quoted(name, s3[1], From(s3, 1), Find(From(s3, 1), <<s3[1]>>))
            ELSE Token(name, s3, LeadCount(s3, Chars(s3) \ WhiteChars))
        Named(name, s2) ==
            IF ~StartsWith(s2, <<"=">>)
            THEN <<HtmlAttr(name, None)>> \o parse_html_attrs(s2)
            ELSE Value(name, TrimStart(From(s2, 1)))
        Name(s1, name_end) ==
            IF name_end = 0 THEN <<>>
            ELSE Named(SubSeq(s1, 1, name_end), TrimStart(From(s1, name_end)))
        Skipped(s1) ==
            IF s1 = <<>> THEN <<>>
            ELSE Name(s1, LeadCount(s1, Chars(s1) \ (WhiteChars \cup {"="})))
    IN Skipped(TrimStart(s0))

----------------------------------------------------------------------------
(* util.rs: the inline parser *)

\* A Diagnostic of phase Parse, as every diagnostic of the parser is.
Diagnostic(severity, code, message, span, notes) ==
    [severity |-> severity, phase |-> Some("parse"), code |-> Some(code),
     message |-> message, span |-> Some(span), notes |-> notes]

\* The offset just past the first "}}" of s, or -1
find_first_close(s) ==
    IF Find(s, <<"}", "}">>) = -1 THEN -1 ELSE Find(s, <<"}", "}">>) + 2

\* find_matching_braces: s starts with "{{"; the offset just past the "}}" that
\* brings the depth back to 0, or -1.
RECURSIVE MatchBracesLoop(_, _, _)
MatchBracesLoop(s, k, depth) ==
    IF k >= Len(s) THEN -1
    ELSE IF StartsAt(s, k, <<"{", "{">>) THEN MatchBracesLoop(s, k + 2, depth + 1)
    ELSE IF StartsAt(s, k, <<"}", "}">>)
         THEN IF depth = 0 THEN -1
              ELSE IF depth - 1 = 0 THEN k + 2
              ELSE MatchBracesLoop(s, k + 2, depth - 1)
    ELSE MatchBracesLoop(s, k + 1, depth)
find_matching_braces(s) == MatchBracesLoop(s, 0, 0)

SatSub1(n) == IF n = 0 THEN 0 ELSE n - 1

\* split_top_level: the byte ranges of s between occurrences of delim outside
\* {{...}} and [[...]].
RECURSIVE SplitTopLoop(_, _, _, _, _, _, _)
SplitTopLoop(s, delim, k, seg_start, tpl_depth, link_depth, out) ==
    IF k >= Len(s) THEN Append(out, <<seg_start, Len(s)>>)
    ELSE IF StartsAt(s, k, <<"{", "{">>)
         THEN SplitTopLoop(s, delim, k + 2, seg_start, tpl_depth + 1, link_depth, out)
    ELSE IF StartsAt(s, k, <<"}", "}">>)
         THEN SplitTopLoop(s, delim, k + 2, seg_start, SatSub1(tpl_depth), link_depth, out)
    ELSE IF StartsAt(s, k, <<"[", "[">>)
         THEN SplitTopLoop(s, delim, k + 2, seg_start, tpl_depth, link_depth + 1, out)
    ELSE IF StartsAt(s, k, <<"]", "]">>)
         THEN SplitTopLoop(s, delim, k + 2, seg_start, tpl_depth, SatSub1(link_depth), out)
    ELSE IF tpl_depth = 0 /\ link_depth = 0 /\ s[k + 1] = delim
         THEN SplitTopLoop(s, delim, k + 1, k + 1, tpl_depth, link_depth,
                           Append(out, <<seg_start, k>>))
    ELSE SplitTopLoop(s, delim, k + 1, seg_start, tpl_depth, link_depth, out)
split_top_level(s, delim) == SplitTopLoop(s, delim, 0, 0, 0, 0, <<>>)

\* find_top_level_eq: the first "=" outside {{...}} and [[...]], or -1.
RECURSIVE TopEqLoop(_, _, _, _)
TopEqLoop(s, k, tpl_depth, link_depth) ==
    IF k >= Len(s) THEN -1
    ELSE IF StartsAt(s, k, <<"{", "{">>) THEN TopEqLoop(s, k + 2, tpl_depth + 1, link_depth)
    ELSE IF StartsAt(s, k, <<"}", "}">>) THEN TopEqLoop(s, k + 2, SatSub1(tpl_depth), link_depth)
    ELSE IF StartsAt(s, k, <<"[", "[">>) THEN TopEqLoop(s, k + 2, tpl_depth, link_depth + 1)
    ELSE IF StartsAt(s, k, <<"]", "]">>) THEN TopEqLoop(s, k + 2, tpl_depth, SatSub1(link_depth))
    ELSE IF tpl_depth = 0 /\ link_depth = 0 /\ s[k + 1] = "=" THEN k
    ELSE TopEqLoop(s, k + 1, tpl_depth, link_depth)
find_top_level_eq(s) == TopEqLoop(s, 0, 0, 0)

\* split_first_ws: (url, label) at the first whitespace after the first token.
split_first_ws(s) ==
    LET Label(p, rest) ==
            IF p = -1 THEN <<s, None>>
            ELSE IF rest = <<>> THEN <<Slice(s, 0, p), None>>
            ELSE <<Slice(s, 0, p), Some(rest)>>
        Token(p) == Label(p, TrimStart(From(s, p)))
    IN Token(MinOr({k \in (LeadCount(s, WhiteChars) + 1)..Len(s) : IsWhitespace(s[k])}, 0) - 1)

\* split_target_anchor
split_target_anchor(s) ==
    LET Anchor(sp) == IF sp.some THEN <<sp.val[1], Some(sp.val[2])>> ELSE <<s, None>>
    IN Anchor(SplitOnce(s, "#"))

NoAttempt(d) == [hit |-> FALSE, diags |-> d]
Hit(node, consumed, d) == [hit |-> TRUE, node |-> node, consumed |-> consumed, diags |-> d]

\* try_parse_line_break
try_parse_line_break(abs_start, rem) ==
    IF ~StartsWith(ToLower(rem), <<"<", "b", "r">>) THEN NoAttempt(<<>>)
    ELSE LET end == Find(rem, <<">">>)
         IN IF end = -1 THEN NoAttempt(<<>>)
            ELSE Hit([span |-> Span(abs_start, abs_start + end + 1), type |-> "line_break"],
                     end + 1, <<>>)

RECURSIVE parse_inlines(_, _)
RECURSIVE InlineLoop(_, _, _, _, _, _)

\* A <ref> tag that is never taken and never diagnosed
try_parse_ref_tag_silent(abs_start, rem) == NoAttempt(<<>>)

\* try_parse_ref_tag
try_parse_ref_tag(abs_start, rem) ==
    LET open_end == Find(rem, <<">">>)
        close_rel == Find(From(ToLower(rem), open_end + 1), <<"<", "/", "r", "e", "f", ">">>)
        close_start_rel == open_end + 1 + close_rel
        Ref(end, attrs, content, self_closing, d) ==
            Hit([span |-> Span(abs_start, abs_start + end), type |-> "ref",
                 attrs |-> attrs, content |-> content, self_closing |-> self_closing],
                end, d)
        Tag(open_tag, attrs, content, inner) ==
            IF EndsWith(TrimEnd(open_tag), <<"/", ">">>)
            THEN Ref(open_end + 1, attrs, None, TRUE, <<>>)
            ELSE IF close_rel = -1
            THEN NoAttempt(<<Diagnostic("warning", "wikitext.ref.unclosed", "Unclosed <ref> tag",
                                        Span(abs_start, abs_start + open_end + 1), <<>>)>>)
            ELSE IF Trim(content) = <<>>
            THEN Ref(close_start_rel + 6, attrs, None, FALSE, <<>>)
            ELSE Ref(close_start_rel + 6, attrs, Some(inner.nodes), FALSE, inner.diags)
    IN IF ~StartsWith(ToLower(rem), <<"<", "r", "e", "f">>) \/ open_end = -1
       THEN NoAttempt(<<>>)
       ELSE Tag(Slice(rem, 0, open_end + 1),
                parse_html_attrs(Trim(TrimEndSlashGt(TrimEndMatches(
                    Trim(TrimStartMatches(TrimStartMatches(Slice(rem, 0, open_end + 1), {"<"}),
                                          AlphaChars)),
                    {">"})))),
                Slice(rem, open_end + 1, close_start_rel),
                parse_inlines(abs_start + open_end + 1,
                              Slice(rem, open_end + 1, close_start_rel)))

\* try_parse_simple_html_tag
try_parse_simple_html_tag(abs_start, rem, tag_name) ==
    LET open_end == Find(rem, <<">">>)
        close_rel == Find(From(ToLower(rem), open_end + 1),
                          <<"<", "/">> \o tag_name \o <<">">>)
        close_start_rel == open_end + 1 + close_rel
        Html(end, attrs, children, self_closing, d) ==
            Hit([span |-> Span(abs_start, abs_start + end), type |-> "html_tag",
                 name |-> tag_name, attrs |-> attrs, children |-> children,
                 self_closing |-> self_closing],
                end, d)
        Tag(open_tag, attrs, content, inner) ==
            IF EndsWith(TrimEnd(open_tag), <<"/", ">">>)
            THEN Html(open_end + 1, attrs, <<>>, TRUE, <<>>)
            ELSE IF close_rel = -1
            THEN NoAttempt(<<Diagnostic("warning", "wikitext.html.unclosed",
                                        <<"Unclosed tag", tag_name>>,
                                        Span(abs_start, abs_start + open_end + 1), <<>>)>>)
            ELSE IF content = <<>>
            THEN Html(close_start_rel + Len(tag_name) + 3, attrs, <<>>, FALSE, <<>>)
            ELSE Html(close_start_rel + Len(tag_name) + 3, attrs, inner.nodes, FALSE,
                      inner.diags)
    IN IF ~StartsWith(ToLower(rem), <<"<">> \o tag_name) \/ open_end = -1
       THEN NoAttempt(<<>>)
       ELSE Tag(Slice(rem, 0, open_end + 1),
                parse_html_attrs(Trim(TrimEndMatches(TrimEndMatches(
                    Trim(TrimStartMatches(TrimStartMatches(Slice(rem, 0, open_end + 1), {"<"}),
                                          AlphaChars)),
                    {">"}), {"/"}))),
                Slice(rem, open_end + 1, close_start_rel),
                parse_inlines(abs_start + open_end + 1,
                              Slice(rem, open_end + 1, close_start_rel)))

\* parse_internal_link
parse_internal_link(abs_start, abs_inner_start, inner) ==
    LET Link(ta, has_label, label) ==
            [node |-> [span |-> Span(abs_start, abs_start + 2 + Len(inner) + 2),
                       type |-> "internal_link",
                       target |-> ta[1],
                       anchor |-> IF ta[2].some /\ ta[2].val # <<>> THEN ta[2] ELSE None,
                       text |-> IF has_label THEN Some(label.nodes) ELSE None],
             diags |-> IF has_label THEN label.diags ELSE <<>>]
        Labelled(sp, rel) ==
            [target |-> split_target_anchor(Trim(IF sp.some THEN sp.val[1] ELSE inner)),
             has_label |-> sp.some /\ Trim(sp.val[2]) # <<>>,
             label_abs |-> IF sp.some THEN abs_inner_start + (IF rel = -1 THEN 0 ELSE rel)
                           ELSE abs_inner_start,
             label |-> IF sp.some THEN Trim(sp.val[2]) ELSE <<>>]
        Split(l, label) == Link(l.target, l.has_label, label)
        Parts(l) == Split(l, parse_inlines(l.label_abs, l.label))
    IN Parts(Labelled(SplitOnce(inner, "|"), Find(inner, SplitOnce(inner, "|").val[2])))

\* parse_file_link: the loop over the segments after the first
RECURSIVE FileParamsLoop(_, _, _, _, _, _)
FileParamsLoop(abs_inner_start, inner, parts, k, params, dg) ==
    LET Param(seg, trimmed, r) ==
            IF trimmed = <<>> THEN [params |-> params, diags |-> dg]
            ELSE [params |-> Append(params, [span |-> Span(abs_inner_start + seg[1],
                                                           abs_inner_start + seg[2]),
                                             content |-> r.nodes]),
                  diags |-> dg \o r.diags]
        Segment(seg, raw) ==
            [seg |-> seg, trimmed |-> Trim(raw),
             abs |-> abs_inner_start + seg[1] + (Len(raw) - Len(TrimStart(raw)))]
        Inlines(g, r) == Param(g.seg, g.trimmed, r)
        Parsed(g) == Inlines(g, parse_inlines(g.abs, g.trimmed))
        Rest(acc) == FileParamsLoop(abs_inner_start, inner, parts, k + 1, acc.params, acc.diags)
    IN IF k > Len(parts) THEN [params |-> params, diags |-> dg]
       ELSE Rest(Parsed(Segment(parts[k], Slice(inner, parts[k][1], parts[k][2]))))

FileNamespaceOf(ns_raw) ==
    LET Named(l) == IF l = <<"i", "m", "a", "g", "e">> THEN "image"
                    ELSE IF l = <<"m", "e", "d", "i", "a">> THEN "media"
                    ELSE "file"
    IN Named(ToLower(ns_raw))

\* parse_file_link
parse_file_link(abs_start, abs_inner_start, inner) ==
    LET Link(first_trim, sp, ps) ==
            [node |-> [span |-> Span(abs_start, abs_start + 2 + Len(inner) + 2),
                       type |-> "file_link",
                       namespace |-> FileNamespaceOf(IF sp.some THEN Trim(sp.val[1])
                                                     ELSE <<"f", "i", "l", "e">>),
                       target |-> IF sp.some THEN Trim(sp.val[2]) ELSE first_trim,
                       params |-> ps.params],
             diags |-> ps.diags]
        First(parts, first_trim, ps) == Link(first_trim, SplitOnce(first_trim, ":"), ps)
        Parts(parts, ps) == First(parts, Trim(Slice(inner, parts[1][1], parts[1][2])), ps)
        Split(parts) == Parts(parts, FileParamsLoop(abs_inner_start, inner, parts, 2, <<>>, <<>>))
    IN Split(split_top_level(inner, "|"))

\* parse_bracket_link
parse_bracket_link(abs_start, abs_inner_start, inner) ==
    LET IsFile(lower) ==
            \/ StartsWith(lower, <<"f", "i", "l", "e", ":">>)
            \/ StartsWith(lower, <<"i", "m", "a", "g", "e", ":">>)
            \/ StartsWith(lower, <<"m", "e", "d", "i", "a", ":">>)
    IN IF IsFile(ToLower(TrimStart(inner)))
       THEN parse_file_link(abs_start, abs_inner_start, inner)
       ELSE parse_internal_link(abs_start, abs_inner_start, inner)

\* parse_template: the loop over the segments after the first
RECURSIVE TemplateParamsLoop(_, _, _, _, _, _)
TemplateParamsLoop(abs_inner_start, inner, parts, k, params, dg) ==
    LET Param(seg, trimmed, name, value) ==
            IF trimmed = <<>> THEN [params |-> params, diags |-> dg]
            ELSE [params |-> Append(params, [span |-> Span(abs_inner_start + seg[1],
                                                           abs_inner_start + seg[2]),
                                             name |-> name, value |-> value.nodes]),
                  diags |-> dg \o value.diags]
        \* name=value: the value lies where its text is first found in the segment
        Named(seg, raw, trimmed, eq_pos, v_trim, v_pos) ==
            IF eq_pos # -1
            THEN [seg |-> seg, trimmed |-> trimmed,
                  name |-> Some(Trim(Slice(trimmed, 0, eq_pos))),
                  abs |-> abs_inner_start + seg[1]
                            + (IF v_pos = -1 THEN Len(raw) - Len(v_trim) ELSE v_pos),
                  text |-> v_trim]
            ELSE [seg |-> seg, trimmed |-> trimmed, name |-> None,
                  abs |-> abs_inner_start + seg[1] + (Len(raw) - Len(TrimStart(raw))),
                  text |-> trimmed]
        Value(seg, raw, trimmed, eq_pos, v_trim) ==
            Named(seg, raw, trimmed, eq_pos, v_trim, Find(raw, v_trim))
        Eq(seg, raw, trimmed, eq_pos) ==
            Value(seg, raw, trimmed, eq_pos, Trim(From(trimmed, eq_pos + 1)))
        Segment(seg, raw) == Eq(seg, raw, Trim(raw), find_top_level_eq(Trim(raw)))
        Inlines(g, value) == Param(g.seg, g.trimmed, g.name, value)
        Parsed(g) == Inlines(g, parse_inlines(g.abs, g.text))
        Rest(acc) ==
            TemplateParamsLoop(abs_inner_start, inner, parts, k + 1, acc.params, acc.diags)
    IN IF k > Len(parts) THEN [params |-> params, diags |-> dg]
       ELSE Rest(Parsed(Segment(parts[k], Slice(inner, parts[k][1], parts[k][2]))))

\* parse_template
parse_template(abs_start, abs_inner_start, inner) ==
    LET Node(name, ps) ==
            [node |-> [span |-> Span(abs_start, abs_start + 2 + Len(inner) + 2),
                       type |-> "template", name |-> name, params |-> ps.params],
             diags |-> ps.diags]
        \* {{#fn:arg|...}}: the text after the colon is the first parameter
        Function(parts, part0, first_raw, sp, rest_trim, rel) ==
            IF StartsWith(first_raw, <<"#">>) /\ sp.some
            THEN [parts |-> parts,
                  name |-> [raw |-> Trim(sp.val[1]), kind |-> "parser_function"],
                  has_arg |-> rest_trim # <<>>,
                  abs |-> abs_inner_start + parts[1][1]
                            + (IF rel = -1 THEN Len(part0) - Len(rest_trim) ELSE rel),
                  text |-> rest_trim]
            ELSE [parts |-> parts,
                  name |-> [raw |-> first_raw,
                            kind |-> IF StartsWith(first_raw, <<"#">>) THEN "parser_function"
                                     ELSE "template"],
                  has_arg |-> FALSE, abs |-> 0, text |-> <<>>]
        Colon(parts, part0, first_raw, sp) ==
            Function(parts, part0, first_raw, sp, Trim(sp.val[2]), Find(part0, Trim(sp.val[2])))
        First(parts, part0) == Colon(parts, part0, Trim(part0), SplitOnce(Trim(part0), ":"))
        Parts(parts) == First(parts, Slice(inner, parts[1][1], parts[1][2]))
        Arg(f, arg) ==
            [name |-> f.name,
             params |-> IF f.has_arg
                        THEN <<[span |-> Span(f.abs, f.abs + Len(f.text)), name |-> None,
                                value |-> arg.nodes]>>
                        ELSE <<>>,
             diags |-> IF f.has_arg THEN arg.diags ELSE <<>>]
        Parsed(f) == Arg(f, parse_inlines(f.abs, f.text))
        Params(a, ps) == Node(a.name, ps)
        Rest(parts, a) ==
            Params(a, TemplateParamsLoop(abs_inner_start, inner, parts, 2, a.params, a.diags))
    IN Rest(split_top_level(inner, "|"), Parsed(Parts(split_top_level(inner, "|"))))

\* try_parse_emphasis: the delimiter of delim_len apostrophes opens at the start
\* of rem and occurs again close_rel after it
EmphasisWith(abs_start, delim_len, kind, close_rel, children) ==
    Hit([span |-> Span(abs_start, abs_start + delim_len + close_rel + delim_len),
         type |-> kind, content |-> children.nodes],
        delim_len + close_rel + delim_len, children.diags)

\* try_parse_emphasis: the longest delimiter first
try_parse_emphasis(abs_start, full_slice, rel_i) ==
    LET Delim(rem, run, c5, c3, c2) ==
            IF run >= 5 /\ c5 # -1 THEN [len |-> 5, kind |-> "bold_italic", close_rel |-> c5]
            ELSE IF run >= 3 /\ c3 # -1 THEN [len |-> 3, kind |-> "bold", close_rel |-> c3]
            ELSE IF run >= 2 /\ c2 # -1 THEN [len |-> 2, kind |-> "italic", close_rel |-> c2]
            ELSE [len |-> 0, kind |-> "none", close_rel |-> 0]
        At(rem) == Delim(rem, LeadCount(rem, {"'"}),
                         Find(From(rem, 5), Repeat("'", 5)),
                         Find(From(rem, 3), Repeat("'", 3)),
                         Find(From(rem, 2), Repeat("'", 2)))
        Inner(d, children) ==
            IF d.len = 0 THEN NoAttempt(<<>>)
            ELSE EmphasisWith(abs_start, d.len, d.kind, d.close_rel, children)
        Parsed(rem, d) ==
            Inner(d, parse_inlines(abs_start + d.len, Slice(rem, d.len, d.len + d.close_rel)))
    IN Parsed(From(full_slice, rel_i), At(From(full_slice, rel_i)))

\* parse_inlines, external links: [http://... label]
ExternalLinkAt(base_abs, slice, k) ==
    LET Url(inner_end, inner, inner_trim, ul) ==
            [is_url |-> \/ StartsWith(inner_trim, <<"h", "t", "t", "p", ":", "/", "/">>)
                        \/ StartsWith(inner_trim, <<"h", "t", "t", "p", "s", ":", "/", "/">>),
             inner_end |-> inner_end, url |-> ul[1], label |-> ul[2],
             label_abs |-> base_abs + k + 1 + (Len(inner) - Len(inner_trim))
                             + (IF ~ul[2].some \/ Find(inner_trim, ul[2].val) = -1
                                THEN Len(inner_trim)
                                ELSE Find(inner_trim, ul[2].val))]
        Trimmed(inner_end, inner, inner_trim) ==
            Url(inner_end, inner, inner_trim, split_first_ws(inner_trim))
        Inner(inner_end, inner) == Trimmed(inner_end, inner, TrimStart(inner))
        Link(u, text) ==
            IF u.is_url
            THEN Hit([span |-> Span(base_abs + k, base_abs + k + u.inner_end + 1),
                      type |-> "external_link",
                      url |-> u.url,
                      text |-> IF u.label.some THEN Some(text.nodes) ELSE None],
                     u.inner_end + 1,
                     IF u.label.some THEN text.diags ELSE <<>>)
            ELSE NoAttempt(<<>>)
        Parsed(u) == Link(u, parse_inlines(u.label_abs, u.label.val))
        Bracket(rem, end_rel) ==
            IF StartsWith(rem, <<"[">>) /\ ~StartsWith(rem, <<"[", "[">>) /\ end_rel # -1
            THEN Parsed(Inner(1 + end_rel, Slice(rem, 1, 1 + end_rel)))
            ELSE NoAttempt(<<>>)
    IN Bracket(From(slice, k), Find(From(slice, k + 1), <<"]">>))

\* parse_inlines, internal links: [[...]] up to the first "]]"
BracketLinkAt(base_abs, slice, k) ==
    LET close_rel == Find(From(slice, k + 2), <<"]", "]">>)
        Node(r) == Hit(r.node, 2 + close_rel + 2, r.diags)
    IN IF StartsAt(slice, k, <<"[", "[">>) /\ close_rel # -1
       THEN Node(parse_bracket_link(base_abs + k, base_abs + k + 2,
                                    Slice(slice, k + 2, k + 2 + close_rel)))
       ELSE NoAttempt(<<>>)

\* parse_inlines, templates: {{...}}
TemplateAt(base_abs, slice, k) ==
    LET consumed == find_matching_braces(From(slice, k))
        Node(r) == Hit(r.node, consumed, r.diags)
    IN IF StartsAt(slice, k, <<"{", "{">>) /\ consumed # -1
       THEN Node(parse_template(base_abs + k, base_abs + k + 2,
                                Slice(slice, k + 2, k + consumed - 2)))
       ELSE NoAttempt(<<>>)

\* One turn of the scan loop of parse_inlines at offset k: the first construct
\* that is recognized there, with the diagnostics of the attempts before it.
InlineAttempt(base_abs, slice, k) ==
    LET First(lt, quote, br, ref, sp, bl, el, tp, em) ==
            IF lt /\ br.hit THEN br
            ELSE IF lt /\ ref.hit THEN ref
            ELSE IF lt /\ sp.hit THEN Hit(sp.node, sp.consumed, ref.diags \o sp.diags)
            ELSE IF lt THEN NoAttempt(ref.diags \o sp.diags)
            ELSE IF bl.hit THEN bl
            ELSE IF el.hit THEN el
            ELSE IF tp.hit THEN tp
            ELSE IF quote /\ em.hit THEN em
            ELSE NoAttempt(<<>>)
    IN First(StartsAt(slice, k, <<"<">>), StartsAt(slice, k, <<"'", "'">>),
             try_parse_line_break(base_abs + k, From(slice, k)),
             try_parse_ref_tag(base_abs + k, From(slice, k)),
             try_parse_simple_html_tag(base_abs + k, From(slice, k), <<"s", "p", "a", "n">>),
             BracketLinkAt(base_abs, slice, k),
             ExternalLinkAt(base_abs, slice, k),
             TemplateAt(base_abs, slice, k),
             try_parse_emphasis(base_abs + k, slice, k))

\* flush_text that adds a Text node for an empty run of text too
flush_text_always(base_abs, slice, out, text_start, k) ==
    Append(out, [span |-> Span(base_abs + text_start, base_abs + k),
                 type |-> "text",
                 value |-> Slice(slice, text_start, k)])

\* flush_text with the end of the span left relative to the slice
flush_text_relative_end(base_abs, slice, out, text_start, k) ==
    IF text_start < k
    THEN Append(out, [span |-> Span(base_abs + text_start, k),
                      type |-> "text",
                      value |-> Slice(slice, text_start, k)])
    ELSE out

\* flush_text
flush_text(base_abs, slice, out, text_start, k) ==
    IF text_start < k
    THEN Append(out, [span |-> Span(base_abs + text_start, base_abs + k),
                      type |-> "text",
                      value |-> Slice(slice, text_start, k)])
    ELSE out

InlineLoop(base_abs, slice, k, text_start, out, dg) ==
    LET Turn(a) ==
            IF a.hit
            THEN [k |-> k + a.consumed, text_start |-> k + a.consumed,
                  out |-> Append(flush_text(base_abs, slice, out, text_start, k), a.node),
                  diags |-> dg \o a.diags]
            ELSE [k |-> k + 1, text_start |-> text_start, out |-> out, diags |-> dg \o a.diags]
        Rest(t) == InlineLoop(base_abs, slice, t.k, t.text_start, t.out, t.diags)
    IN IF k >= Len(slice)
       THEN [nodes |-> flush_text(base_abs, slice, out, text_start, k), diags |-> dg]
       ELSE Rest(Turn(InlineAttempt(base_abs, slice, k)))

\* parse_inlines(full_src, base_abs, slice, diagnostics): the nodes of slice, which
\* lies at base_abs in the source, and the diagnostics it appends.
parse_inlines(base_abs, slice) == InlineLoop(base_abs, slice, 0, 0, <<>>, <<>>)

----------------------------------------------------------------------------
(* table.rs: the table sub-parser *)

\* cell_content_to_blocks: the content of a cell as one Paragraph, or nothing
cell_content_to_blocks(abs_start, content) ==
    LET trimmed == Trim(content)
        abs == abs_start + (Len(content) - Len(TrimStart(content)))
        Blocks(r) ==
            IF trimmed = <<>> THEN [blocks |-> <<>>, diags |-> <<>>]
            ELSE [blocks |-> <<[span |-> Span(abs, abs + Len(trimmed)), type |-> "paragraph",
                                content |-> r.nodes]>>,
                  diags |-> r.diags]
    IN Blocks(parse_inlines(abs, trimmed))

\* append_line
append_line(buf, line) == IF buf # <<>> THEN buf \o <<"\n">> \o line ELSE line

\* split_cell_segments: the ranges of rest between occurrences of the two-character
\* separator ("||" or "!!") outside {{...}} and [[...]].
RECURSIVE SplitCellLoop(_, _, _, _, _, _, _)
SplitCellLoop(rest, sep, k, last, tpl_depth, link_depth, out) ==
    IF k >= Len(rest) THEN Append(out, [start |-> last, end |-> Len(rest)])
    ELSE IF StartsAt(rest, k, <<"{", "{">>)
         THEN SplitCellLoop(rest, sep, k + 2, last, tpl_depth + 1, link_depth, out)
    ELSE IF StartsAt(rest, k, <<"}", "}">>)
         THEN SplitCellLoop(rest, sep, k + 2, last, SatSub1(tpl_depth), link_depth, out)
    ELSE IF StartsAt(rest, k, <<"[", "[">>)
         THEN SplitCellLoop(rest, sep, k + 2, last, tpl_depth, link_depth + 1, out)
    ELSE IF StartsAt(rest, k, <<"]", "]">>)
         THEN SplitCellLoop(rest, sep, k + 2, last, tpl_depth, SatSub1(link_depth), out)
    ELSE IF tpl_depth = 0 /\ link_depth = 0 /\ StartsAt(rest, k, sep)
         THEN SplitCellLoop(rest, sep, k + Len(sep), k + Len(sep), tpl_depth, link_depth,
                            Append(out, [start |-> last, end |-> k]))
    ELSE SplitCellLoop(rest, sep, k + 1, last, tpl_depth, link_depth, out)
\* The text after the marker of a cell line as one segment
split_cell_segments_whole(rest, sep) == <<[start |-> 0, end |-> Len(rest)]>>

split_cell_segments(rest, sep) == SplitCellLoop(rest, sep, 0, 0, 0, 0, <<>>)

\* find_attr_separator: the first "|" outside quotes, {{...}} and [[...]], or -1.
\* in_quote is "" outside a quoted run, else the quote character that opened it.
RECURSIVE AttrSepLoop(_, _, _, _, _)
AttrSepLoop(seg_str, k, tpl_depth, link_depth, in_quote) ==
    IF k >= Len(seg_str) THEN -1
    ELSE IF StartsAt(seg_str, k, <<"{", "{">>)
         THEN AttrSepLoop(seg_str, k + 2, tpl_depth + 1, link_depth, in_quote)
    ELSE IF StartsAt(seg_str, k, <<"}", "}">>)
         THEN AttrSepLoop(seg_str, k + 2, SatSub1(tpl_depth), link_depth, in_quote)
    ELSE IF StartsAt(seg_str, k, <<"[", "[">>)
         THEN AttrSepLoop(seg_str, k + 2, tpl_depth, link_depth + 1, in_quote)
    ELSE IF StartsAt(seg_str, k, <<"]", "]">>)
         THEN AttrSepLoop(seg_str, k + 2, tpl_depth, SatSub1(link_depth), in_quote)
    ELSE LET ch == seg_str[k + 1]
         IN IF ch \in {"\"", "'"}
            THEN AttrSepLoop(seg_str, k + 1, tpl_depth, link_depth,
                             IF in_quote = "" THEN ch
                             ELSE IF in_quote = ch THEN "" ELSE in_quote)
            ELSE IF in_quote = "" /\ tpl_depth = 0 /\ link_depth = 0 /\ ch = "|" THEN k
            ELSE AttrSepLoop(seg_str, k + 1, tpl_depth, link_depth, in_quote)
find_attr_separator(seg_str) == AttrSepLoop(seg_str, 0, 0, 0, "")

\* split_attrs_content: (attrs, content, content_abs_start) of a cell or caption
\* segment that lies at seg_abs_start.
split_attrs_content(seg_str, seg_abs_start) ==
    LET pipe_pos == find_attr_separator(seg_str)
        right == From(seg_str, pipe_pos + 1)
    IN IF pipe_pos # -1
       THEN [attrs |-> parse_html_attrs(Trim(Slice(seg_str, 0, pipe_pos))),
             content |-> TrimStart(right),
             content_abs |-> seg_abs_start + pipe_pos + 1 + (Len(right) - Len(TrimStart(right)))]
       ELSE [attrs |-> <<>>,
             content |-> TrimStart(seg_str),
             content_abs |-> seg_abs_start + (Len(seg_str) - Len(TrimStart(seg_str)))]

Digits == <<"0", "1", "2", "3", "4", "5", "6", "7", "8", "9">>
DigitVal(c) == (CHOOSE d \in 1..10 : Digits[d] = c) - 1
RECURSIVE DecimalValue(_)
DecimalValue(s) == IF s = <<>> THEN 0 ELSE DecimalValue(SubSeq(s, 1, Len(s) - 1)) * 10 + DigitVal(s[Len(s)])
\* str::parse::<u32>: digits with an optional leading "+".  Runs of more than nine
\* digits, which may leave the range of u32, do not occur in the inputs checked.
ParseU32(s) ==
    LET Number(d) ==
            IF d # <<>> /\ (\A k \in 1..Len(d) : \E n \in 1..10 : Digits[n] = d[k]) /\ Len(d) <= 9
            THEN Some(DecimalValue(d)) ELSE None
    IN Number(IF StartsWith(s, <<"+">>) THEN From(s, 1) ELSE s)

\* extract_spans: (rowspan, colspan); the last attribute that parses wins
RECURSIVE SpanAttr(_, _, _)
SpanAttr(attrs, name, acc) ==
    LET Pick(a, v) ==
            SpanAttr(Tail(attrs), name, IF EqIgnoreCase(a.name, name) /\ v.some THEN v ELSE acc)
        Value(a) == Pick(a, IF a.value.some THEN ParseU32(a.value.val) ELSE None)
    IN IF attrs = <<>> THEN acc ELSE Value(Head(attrs))
extract_spans(attrs) ==
    <<SpanAttr(attrs, <<"r", "o", "w", "s", "p", "a", "n">>, None),
      SpanAttr(attrs, <<"c", "o", "l", "s", "p", "a", "n">>, None)>>

\* finish_cell: the open cell, if any, becomes a TableCell of the open row (a row
\* is opened for it when there is none).  st is the state of parse_table.
finish_cell(st) ==
    LET Cell(b, cb) ==
            [kind |-> b.kind, span |-> Span(b.span_start, b.span_end), attrs |-> b.attrs,
             rowspan |-> b.rowspan, colspan |-> b.colspan, blocks |-> cb.blocks]
        Finished(b, cb, cell) ==
            [st EXCEPT
               !.current_cell = None,
               !.diags = @ \o cb.diags,
               !.current_row =
                   IF ~st.current_row.some
                   THEN Some([span_start |-> b.span_start, span_end |-> b.span_end,
                              attrs |-> <<>>, cells |-> <<cell>>])
                   ELSE Some([st.current_row.val EXCEPT
                                !.span_end = IF @ >= b.span_end THEN @ ELSE b.span_end,
                                !.cells = Append(@, cell)])]
        Blocks(b, cb) == Finished(b, cb, Cell(b, cb))
    IN IF ~st.current_cell.some THEN st
       ELSE Blocks(st.current_cell.val,
                   cell_content_to_blocks(st.current_cell.val.content_abs_start,
                                          st.current_cell.val.content))

\* finish_row: the open row, if any, is appended to the table
finish_row(st) ==
    LET Row(rb) == [span |-> Span(rb.span_start, rb.span_end),
                    attrs |-> rb.attrs, cells |-> rb.cells]
    IN IF ~st.current_row.some THEN st
       ELSE [st EXCEPT !.current_row = None,
                       !.table.rows = Append(@, Row(st.current_row.val))]

\* A line for the open cell that is left out of its text
AppendToCellSkipped(st, line_raw, lr) == st

\* parse_table: a line that is appended to the open cell, when there is one
AppendToCell(st, line_raw, lr) ==
    IF st.current_cell.some
    THEN [st EXCEPT !.current_cell =
             Some([st.current_cell.val EXCEPT !.content = append_line(@, line_raw),
                                              !.span_end = lr.end])]
    ELSE st

\* parse_table: the segments of a "!" or "|" cell line, in order
RECURSIVE CellSegmentsLoop(_, _, _, _, _, _)
CellSegmentsLoop(st, rest, segments, k, kind, line_abs_start) ==
    LET seg_abs_start == line_abs_start + 1 + segments[k].start
        seg_abs_end == line_abs_start + 1 + segments[k].end
        ac == split_attrs_content(Slice(rest, segments[k].start, segments[k].end),
                                  seg_abs_start)
        \* the last segment stays open as the current cell
        Open(a, spans) ==
            [st EXCEPT !.current_cell =
                Some([kind |-> kind, span_start |-> seg_abs_start, span_end |-> seg_abs_end,
                      attrs |-> a.attrs, rowspan |-> spans[1], colspan |-> spans[2],
                      content_abs_start |-> a.content_abs, content |-> a.content])]
        Cell(a, spans, cb) ==
            [kind |-> kind, span |-> Span(seg_abs_start, seg_abs_end), attrs |-> a.attrs,
             rowspan |-> spans[1], colspan |-> spans[2], blocks |-> cb.blocks]
        Pushed(cb, cell) ==
            [st EXCEPT
               !.diags = @ \o cb.diags,
               !.current_row =
                   IF st.current_row.some
                   THEN Some([st.current_row.val EXCEPT
                                !.span_end = IF @ >= seg_abs_end THEN @ ELSE seg_abs_end,
                                !.cells = Append(@, cell)])
                   ELSE Some([span_start |-> seg_abs_start, span_end |-> seg_abs_end,
                              attrs |-> <<>>, cells |-> <<cell>>])]
        Closed(a, spans, cb) == Pushed(cb, Cell(a, spans, cb))
        Rest(st2) == CellSegmentsLoop(st2, rest, segments, k + 1, kind, line_abs_start)
    IN IF k > Len(segments) THEN st
       ELSE IF k = Len(segments) THEN Open(ac, extract_spans(ac.attrs))
       ELSE Rest(Closed(ac, extract_spans(ac.attrs),
                        cell_content_to_blocks(ac.content_abs, ac.content)))

\* parse_table: one turn of the loop over the lines after the "{|" line.
\* st.closed is set by the "|}" that ends the table (the break of the loop).
TableStep(s, lns, st) ==
    LET lr == lns[st.i + 1]
        line_raw == strip_cr(LineRaw(s, lr))
        trimmed_start == TrimStart(line_raw)
        lead == Len(line_raw) - Len(trimmed_start)
        next == [st EXCEPT !.i = @ + 1]
        is_header == StartsWith(trimmed_start, <<"!">>)
        cap == split_attrs_content(From(trimmed_start, 2), lr.start + lead + 2)
        Line(raw, t, fc, capn, cells) ==
            IF StartsWith(t, <<"{", "|">>)
            THEN AppendToCell([next EXCEPT !.depth = @ + 1], raw, lr)
            ELSE IF StartsWith(t, <<"|", "}">>)
            THEN IF st.depth = 1
                 THEN [finish_row(fc) EXCEPT !.table_end_abs = lr.end, !.closed = TRUE]
                 ELSE AppendToCell([next EXCEPT !.depth = @ - 1], raw, lr)
            ELSE IF st.depth > 1
            THEN AppendToCell(next, raw, lr)
            ELSE IF StartsWith(t, <<"|", "+">>)
            THEN [finish_row(fc) EXCEPT
                    !.diags = @ \o capn.diags,
                    !.table.caption = Some([span |-> Span(lr.start, lr.end),
                                            attrs |-> cap.attrs,
                                            content |-> capn.nodes])]
            ELSE IF StartsWith(t, <<"|", "-">>)
            THEN [finish_row(fc) EXCEPT !.current_row =
                     Some([span_start |-> lr.start + lead, span_end |-> lr.end,
                           attrs |-> parse_html_attrs(Trim(From(t, 2))),
                           cells |-> <<>>])]
            ELSE IF is_header \/ StartsWith(t, <<"|">>)
            THEN cells
            ELSE IF st.current_cell.some
            THEN AppendToCell(next, raw, lr)
            ELSE IF t # <<>>
            THEN [next EXCEPT !.diags = Append(@,
                     Diagnostic("warning", "wikitext.table.unexpected_line",
                                "Unexpected line inside table", Span(lr.start, lr.end),
                                <<raw>>))]
            ELSE next
    IN Line(line_raw, trimmed_start, finish_cell(next),
            parse_inlines(cap.content_abs, cap.content),
            CellSegmentsLoop(finish_cell(next), From(trimmed_start, 1),
                             split_cell_segments(From(trimmed_start, 1),
                                                 IF is_header THEN <<"!", "!">>
                                                 ELSE <<"|", "|">>),
                             1, IF is_header THEN "header" ELSE "data", lr.start + lead))

RECURSIVE TableLoop(_, _, _)
TableLoop(s, lns, st) ==
    IF st.i >= Len(lns) \/ st.closed THEN st ELSE TableLoop(s, lns, TableStep(s, lns, st))

\* The state of parse_table when it enters its loop.
TableInit(s, lns, start_i) ==
    LET start_line == lns[start_i + 1]
        trimmed == TrimStart(strip_cr(LineRaw(s, start_line)))
    IN [i |-> start_i + 1, depth |-> 1, closed |-> FALSE,
        table |-> [attrs |-> parse_html_attrs(Trim(From(trimmed, 2))),
                   caption |-> None, rows |-> <<>>],
        current_row |-> None, current_cell |-> None,
        table_end_abs |-> start_line.end, diags |-> <<>>]

\* parse_table: Ok((node, next index)) with the diagnostics appended, or Err
parse_table(s, lns, start_i) ==
    LET start_line == lns[start_i + 1]
        Table(st) ==
            [ok |-> TRUE,
             node |-> [span |-> Span(start_line.start, st.table_end_abs), type |-> "table",
                       table |-> st.table],
             next |-> st.i,
             diags |-> st.diags]
    IN IF ~StartsWith(TrimStart(strip_cr(LineRaw(s, start_line))), <<"{", "|">>)
       THEN [ok |-> FALSE, err |-> "not a table"]
       ELSE Table(TableLoop(s, lns, TableInit(s, lns, start_i)))

----------------------------------------------------------------------------
(* mod.rs: the detectors of the block-level forms *)

RedirectWord == <<"#", "R", "E", "D", "I", "R", "E", "C", "T">>
CategoryWord == <<"c", "a", "t", "e", "g", "o", "r", "y", ":">>
ReferencesWord == <<"<", "r", "e", "f", "e", "r", "e", "n", "c", "e", "s">>
ReferencesClose == <<">", "<", "/", "r", "e", "f", "e", "r", "e", "n", "c", "e", "s", ">">>
PreWord == <<"p", "r", "e">>
SyntaxHighlightWord == <<"s", "y", "n", "t", "a", "x", "h", "i", "g", "h", "l", "i", "g", "h", "t">>
RuleText == <<"-", "-", "-", "-">>

\* A redirect only when the line holds a "[[...]]"
try_parse_redirect_strict(line, text) ==
    LET trimmed == TrimStart(text)
        open == Find(trimmed, <<"[", "[">>)
        close_rel == FindFrom(trimmed, open + 2, <<"]", "]">>)
    IN IF StartsWith(ToUpper(trimmed), RedirectWord) /\ open # -1 /\ close_rel # -1
       THEN Some([span |-> Span(line.start + (Len(text) - Len(trimmed)) + open,
                                line.start + (Len(text) - Len(trimmed)) + open + 2
                                    + close_rel + 2),
                  target |-> split_target_anchor(
                                 Trim(Slice(trimmed, open + 2, open + 2 + close_rel)))[1],
                  anchor |-> split_target_anchor(
                                 Trim(Slice(trimmed, open + 2, open + 2 + close_rel)))[2]])
       ELSE None

\* try_parse_redirect
try_parse_redirect(line, text) ==
    LET Link(span, ta) == Some([span |-> span, target |-> ta[1], anchor |-> ta[2]])
        Target(trimmed, open, close_rel) ==
            IF ~StartsWith(ToUpper(trimmed), RedirectWord) THEN None
            ELSE IF open # -1 /\ close_rel # -1
            THEN Link(Span(line.start + (Len(text) - Len(trimmed)) + open,
                           line.start + (Len(text) - Len(trimmed)) + open + 2 + close_rel + 2),
                      split_target_anchor(Trim(Slice(trimmed, open + 2, open + 2 + close_rel))))
            ELSE Some([span |-> Span(line.start, line.end), target |-> <<>>, anchor |-> None])
        Open(trimmed, open) == Target(trimmed, open, FindFrom(trimmed, open + 2, <<"]", "]">>))
        Trimmed(trimmed) == Open(trimmed, Find(trimmed, <<"[", "[">>))
    IN Trimmed(TrimStart(text))

\* try_parse_category
try_parse_category(line, text) ==
    LET Named(name_raw, sort_raw) ==
            Some([span |-> Span(line.start, line.end),
                  name |-> name_raw,
                  sort_key |-> IF sort_raw.some /\ sort_raw.val # <<>> THEN sort_raw ELSE None])
        Sorted(after, sp) ==
            Named(IF sp.some THEN Trim(sp.val[1]) ELSE Trim(after),
                  IF sp.some THEN Some(Trim(sp.val[2])) ELSE None)
        After(after) == Sorted(after, SplitOnce(after, "|"))
        Inner(inner_trim) ==
            IF ~StartsWith(ToLower(inner_trim), CategoryWord) THEN None
            ELSE After(From(inner_trim, Len(CategoryWord)))
        Trimmed(trimmed) ==
            IF ~StartsWith(trimmed, <<"[", "[">>) \/ ~EndsWith(trimmed, <<"]", "]">>) THEN None
            ELSE Inner(TrimStart(Slice(trimmed, 2, Len(trimmed) - 2)))
    IN Trimmed(Trim(text))

\* try_parse_references
try_parse_references(line, text) ==
    LET trimmed == Trim(text)
        lower == ToLower(trimmed)
        end == Find(trimmed, <<">">>)
    IN IF ~StartsWith(lower, ReferencesWord) THEN None
       ELSE IF ~EndsWith(lower, <<"/", ">">>) /\ ~EndsWith(lower, ReferencesClose) THEN None
       ELSE IF end # -1
       THEN Some([attrs |-> parse_html_attrs(TrimEndMatches(TrimEndSlashGt(
                     Trim(TrimStartMatches(TrimStartMatches(Slice(trimmed, 0, end + 1), {"<"}),
                                           AlphaChars))), {">"}))])
       ELSE Some([attrs |-> <<>>])

\* try_parse_magic_word
try_parse_magic_word(trimmed) ==
    IF StartsWith(trimmed, <<"_", "_">>) /\ EndsWith(trimmed, <<"_", "_">>) /\ Len(trimmed) > 4
    THEN Some(trimmed) ELSE None

\* try_parse_heading: (level, inner_start, inner_end), or None
try_parse_heading(s, line) ==
    LET Inner(offset_in_line, n, inner, inner_start_rel) ==
            Some([level |-> n,
                  inner_start |-> line.start + offset_in_line + inner_start_rel,
                  inner_end |-> line.start + offset_in_line
                                  + Max({inner_start_rel, n + TrailKeep(inner, WhiteChars)})])
        Closed(offset_in_line, n, inner) ==
            Inner(offset_in_line, n, inner, n + LeadCount(inner, WhiteChars))
        Body(offset_in_line, n, end_idx, tail) ==
            IF n = 0 \/ n > 6 THEN None
            ELSE IF end_idx < n * 2 THEN None
            ELSE IF ~EndsWith(tail, Repeat("=", n)) THEN None
            ELSE Closed(offset_in_line, n, Slice(tail, n, Len(tail) - n))
        Level(offset_in_line, trimmed_start, n, end_idx) ==
            Body(offset_in_line, n, end_idx, Slice(trimmed_start, 0, end_idx))
        Run(offset_in_line, trimmed_start) ==
            Level(offset_in_line, trimmed_start, LeadCount(trimmed_start, {"="}),
                  TrailKeep(trimmed_start, WhiteChars))
        Raw(raw_line, offset_in_line) == Run(offset_in_line, From(raw_line, offset_in_line))
    IN Raw(LineRaw(s, line), LeadCount(LineRaw(s, line), {" ", "\t"}))

\* is_list_line
is_list_line(text) ==
    LET First(trimmed) == trimmed # <<>> /\ trimmed[1] \in {"*", "#", ";", ":"}
    IN First(TrimStart(text))

\* is_block_start
is_block_start(s, line, text) ==
    LET trimmed == Trim(text)
        t == ToLower(trimmed)
    IN IF trimmed = <<>> THEN FALSE
       ELSE \/ try_parse_category(line, text).some
            \/ try_parse_heading(s, line).some
            \/ StartsWith(line_trimmed_start(s, line), <<"{", "|">>)
            \/ is_list_line(text)
            \/ StartsWith(t, <<"<">> \o PreWord)
            \/ StartsWith(t, <<"<">> \o SyntaxHighlightWord)
            \/ StartsWith(t, ReferencesWord)
            \/ try_parse_magic_word(trimmed).some
            \/ trimmed = RuleText

----------------------------------------------------------------------------
(* mod.rs: code blocks *)

\* parse_tagged_code_block: Some((node, next index)) with the diagnostics it
\* pushes, or None
parse_tagged_code_block(s, lns, start_i, tag, kind) ==
    LET start_line == lns[start_i + 1]
        \* start_abs and open_end_abs of the source
        first_abs == start_line.start
                       + (Len(LineRaw(s, start_line)) - Len(line_trimmed_start(s, start_line)))
        first_open_end_abs == first_abs + Find(From(s, first_abs), <<">">>) + 1
        open_pat == <<"<">> \o tag
        close_pat == <<"<", "/">> \o tag \o <<">">>
        Lang(attrs, langs) == IF langs = {} THEN None ELSE attrs[Min(langs)].value
        Attrs(attrs) ==
            Lang(attrs, {k \in 1..Len(attrs) : EqIgnoreCase(attrs[k].name, <<"l", "a", "n", "g">>)})
        Block(span, lang, text, next_i, d) ==
            [some |-> TRUE,
             node |-> [span |-> span, type |-> "code_block",
                       block |-> [kind |-> kind, lang |-> lang, text |-> text]],
             next |-> next_i,
             diags |-> d]
        \* the lines whose end_with_newline lies at or before the end of the closing tag
        \* are consumed
        Closed(start_abs, open_end_abs, lang, close_start_abs, close_end_abs) ==
            Block(Span(start_abs, close_end_abs), lang,
                  Slice(s, open_end_abs, close_start_abs),
                  start_i + Cardinality({k \in start_i..(Len(lns) - 1) :
                                 \A m \in start_i..k :
                                     lns[m + 1].end_with_newline <= close_end_abs}),
                  <<>>)
        Close(start_abs, open_end_abs, lang, closes) ==
            IF closes = {}
            THEN Block(Span(start_abs, start_line.end), lang, <<>>, start_i + 1,
                       <<Diagnostic("warning", "wikitext.codeblock.unclosed",
                                    <<"Unclosed tag", tag>>,
                                    Span(start_abs, open_end_abs), <<>>)>>)
            ELSE Closed(start_abs, open_end_abs, lang, open_end_abs + Min(closes),
                        open_end_abs + Min(closes) + Len(close_pat))
        Search(start_abs, open_end_abs, lang, search_haystack) ==
            Close(start_abs, open_end_abs, lang,
                  {k \in 0..(Len(search_haystack) - Len(close_pat)) :
                      EqIgnoreCase(Slice(search_haystack, k, k + Len(close_pat)), close_pat)})
        Tag(start_abs, remaining, open_end_rel, lang) ==
            IF Len(remaining) < Len(open_pat)
               \/ ~EqIgnoreCase(Slice(remaining, 0, Len(open_pat)), open_pat)
            THEN [some |-> FALSE, diags |-> <<>>]
            ELSE IF open_end_rel = -1 THEN [some |-> FALSE, diags |-> <<>>]
            ELSE Search(start_abs, start_abs + open_end_rel + 1, lang,
                        From(s, start_abs + open_end_rel + 1))
    IN Tag(first_abs, From(s, first_abs), Find(From(s, first_abs), <<">">>),
           Attrs(parse_html_attrs(Trim(TrimEndMatches(TrimEndMatches(
               Trim(TrimStartMatches(TrimStartMatches(Slice(s, first_abs, first_open_end_abs),
                                                      {"<"}), AlphaChars)),
               {">"}), {"/"})))))

\* try_parse_code_block
try_parse_code_block(s, lns, start_i) ==
    LET lower == ToLower(line_trimmed_start(s, lns[start_i + 1]))
        pre == StartsWith(lower, <<"<">> \o PreWord)
        highlight == StartsWith(lower, <<"<">> \o SyntaxHighlightWord)
    IN IF ~pre /\ ~highlight THEN [some |-> FALSE, diags |-> <<>>]
       ELSE parse_tagged_code_block(s, lns, start_i,
                                    IF pre THEN PreWord ELSE SyntaxHighlightWord,
                                    IF pre THEN "pre_tag" ELSE "syntax_highlight")

\* parse_leading_space_block: the run of lines that start with a space
RECURSIVE LeadingSpaceText(_, _, _, _)
LeadingSpaceText(s, lns, from, to) ==
    IF from >= to THEN <<>>
    ELSE From(LineText(s, lns[from + 1]), 1)
           \o (IF from + 1 < to THEN <<"\n">> ELSE <<>>)
           \o LeadingSpaceText(s, lns, from + 1, to)
parse_leading_space_block(s, lns, start_i) ==
    LET Block(end_i) ==
            [node |-> [span |-> Span(lns[start_i + 1].start,
                                     IF end_i = start_i THEN lns[start_i + 1].end
                                     ELSE lns[end_i].end),
                       type |-> "code_block",
                       block |-> [kind |-> "leading_space", lang |-> None,
                                  text |-> LeadingSpaceText(s, lns, start_i, end_i)]],
             next |-> end_i]
    IN Block(start_i + Cardinality({k \in start_i..(Len(lns) - 1) :
                          \A m \in start_i..k : StartsWith(LineText(s, lns[m + 1]), <<" ">>)}))

----------------------------------------------------------------------------
(* mod.rs: lists *)

MarkerChars == {"*", "#", ";", ":"}

\* parse_list_block: the prefix of marker characters of a list line
ListPrefix(text) ==
    LET Markers(trimmed) == SubSeq(trimmed, 1, LeadCount(trimmed, MarkerChars))
    IN Markers(TrimStart(text))

\* parse_list_block: whether the collecting loop takes the line
ListLineTaken(s, lr) ==
    LET Taken(raw) == Trim(raw) # <<>> /\ is_list_line(raw) /\ ListPrefix(raw) # <<>>
    IN Taken(LineText(s, lr))

\* parse_list_block: the index after the contiguous list lines from start_i
ListEnd(s, lns, start_i) ==
    start_i + Cardinality({k \in start_i..(Len(lns) - 1) :
                              \A m \in start_i..k : ListLineTaken(s, lns[m + 1])})

\* parse_list_block: where the content of a list line starts (after the markers
\* and one optional space)
ListContentStart(s, lr) ==
    LET After(content_start_abs) ==
            IF StartsWith(Slice(s, content_start_abs, lr.end), <<" ">>)
            THEN content_start_abs + 1 ELSE content_start_abs
        Markers(raw) ==
            After(lr.start + (Len(raw) - Len(TrimStart(raw))) + Len(ListPrefix(raw)))
    IN Markers(LineText(s, lr))

ListMarkerOf(ch) ==
    CASE ch = "*" -> "unordered"
      [] ch = "#" -> "ordered"
      [] ch = ";" -> "term"
      [] ch = ":" -> "definition"
      [] OTHER -> "unordered"

\* attach_child_list: the items of child become a List block of the parent item
attach_child_list(parent, child) ==
    IF child = <<>> THEN parent
    ELSE [parent EXCEPT !.blocks =
            Append(@, [span |-> Cover(child[1].span, child[Len(child)].span),
                       type |-> "list", items |-> child])]

\* parse_list_block: one pop of the stack of contexts.  A context is the
\* sequence of its items.
ListPop(stack) ==
    LET Attach(child, rest, parent_ctx) ==
            IF parent_ctx # <<>>
            THEN [rest EXCEPT ![Len(rest)] =
                    [parent_ctx EXCEPT ![Len(parent_ctx)] = attach_child_list(@, child)]]
            ELSE [rest EXCEPT ![Len(rest)] = parent_ctx \o child]
        Parent(child, rest) ==
            IF rest = <<>> THEN rest ELSE Attach(child, rest, rest[Len(rest)])
    IN Parent(stack[Len(stack)], SubSeq(stack, 1, Len(stack) - 1))

\* parse_list_block: pop contexts until the stack is at most depth deep
RECURSIVE ListPopTo(_, _)
ListPopTo(stack, depth) ==
    IF Len(stack) > depth THEN ListPopTo(ListPop(stack), depth) ELSE stack

\* The contexts pushed until the stack is depth deep, without a dummy item
\* and without a warning
ListPushToBare(st, depth, lr) ==
    IF Len(st.stack) >= depth THEN st
    ELSE [stack |-> st.stack \o [k \in 1..(depth - Len(st.stack)) |-> <<>>],
          diags |-> st.diags]

\* parse_list_block: push contexts until the stack is depth deep; a context
\* without items gets a dummy item and a warning first.
RECURSIVE ListPushTo(_, _, _)
ListPushTo(st, depth, lr) ==
    IF Len(st.stack) >= depth THEN st
    ELSE IF st.stack[Len(st.stack)] = <<>>
    THEN ListPushTo(
           [stack |-> Append([st.stack EXCEPT ![Len(st.stack)] =
                                 <<[span |-> Span(lr.start, lr.start),
                                    marker |-> "unordered", blocks |-> <<>>]>>],
                             <<>>),
            diags |-> Append(st.diags,
                        Diagnostic("warning", "wikitext.list.missing_parent",
                                   "Nested list item without a parent; inserting dummy item",
                                   Span(lr.start, lr.end), <<>>))],
           depth, lr)
    ELSE ListPushTo([stack |-> Append(st.stack, <<>>), diags |-> st.diags], depth, lr)

\* Every list line at the depth of one marker
ListDepthOne(prefix) == 1

\* parse_list_block: the depth of a list line is the number of its markers
ListDepth(prefix) == IF Len(prefix) >= 1 THEN Len(prefix) ELSE 1

\* parse_list_block: one list line applied to the stack
ListLineStep(s, lr, st) ==
    LET content_start_abs == ListContentStart(s, lr)
        content_slice == Slice(s, content_start_abs, lr.end)
        Item(prefix, inl) ==
            [span |-> Span(lr.start, lr.end), marker |-> ListMarkerOf(prefix[Len(prefix)]),
             blocks |-> IF inl.nodes # <<>>
                        THEN <<[span |-> Span(content_start_abs, lr.end), type |-> "paragraph",
                                content |-> inl.nodes]>>
                        ELSE <<>>]
        Pushed(pushed, item, inl) ==
            [stack |-> [pushed.stack EXCEPT ![Len(pushed.stack)] = Append(@, item)],
             diags |-> pushed.diags \o inl.diags]
        Line(prefix, inl) ==
            Pushed(ListPushTo([stack |-> ListPopTo(st.stack, ListDepth(prefix)),
                               diags |-> st.diags],
                              ListDepth(prefix), lr),
                   Item(prefix, inl), inl)
    IN Line(ListPrefix(LineText(s, lr)),
            IF Trim(content_slice) # <<>> THEN parse_inlines(content_start_abs, content_slice)
            ELSE [nodes |-> <<>>, diags |-> <<>>])

RECURSIVE ListBuild(_, _, _, _, _)
ListBuild(s, lns, k, end_i, st) ==
    IF k >= end_i THEN st ELSE ListBuild(s, lns, k + 1, end_i, ListLineStep(s, lns[k + 1], st))

\* parse_list_block: (node, next index) with the diagnostics it pushes
parse_list_block(s, lns, start_i) ==
    LET Node(end_i, built, items) ==
            [node |-> [span |-> IF items = <<>>
                                THEN Span(lns[start_i + 1].start, lns[start_i + 1].end)
                                ELSE Cover(items[1].span, items[Len(items)].span),
                       type |-> "list", items |-> items],
             next |-> end_i,
             diags |-> built.diags]
        Built(end_i, built) == Node(end_i, built, ListPopTo(built.stack, 1)[1])
    IN Built(ListEnd(s, lns, start_i),
             ListBuild(s, lns, start_i, ListEnd(s, lns, start_i),
                       [stack |-> <<<<>>>>, diags |-> <<>>]))

----------------------------------------------------------------------------
(* mod.rs: parse_document, the block driver *)

\* parse_document: the paragraph gathers lines until a blank line or a block start
ParagraphEnd(s, lns, start_i) ==
    start_i + Cardinality({k \in start_i..(Len(lns) - 1) :
                              \A m \in start_i..k :
                                 /\ Trim(LineText(s, lns[m + 1])) # <<>>
                                 /\ ~is_block_start(s, lns[m + 1], LineText(s, lns[m + 1]))})

\* The branches of the main loop with the list lines taken before the lines
\* with a leading space
DispatchListFirst(s, lns, k) ==
    LET line == lns[k + 1]
        text == LineText(s, line)
        trimmed == Trim(text)
    IN IF trimmed = <<>> THEN "blank"
       ELSE IF try_parse_category(line, text).some THEN "category"
       ELSE IF try_parse_references(line, text).some THEN "references"
       ELSE IF try_parse_magic_word(trimmed).some THEN "magic_word"
       ELSE IF trimmed = RuleText THEN "horizontal_rule"
       ELSE IF try_parse_heading(s, line).some THEN "heading"
       ELSE IF StartsWith(line_trimmed_start(s, line), <<"{", "|">>) THEN "table"
       ELSE IF try_parse_code_block(s, lns, k).some THEN "code_block"
       ELSE IF is_list_line(TrimStart(text)) THEN "list"
       ELSE IF StartsWith(text, <<" ">>) THEN "leading_space"
       ELSE IF ParagraphEnd(s, lns, k) = k THEN "skip"
       ELSE "paragraph"

\* parse_document: the branch of the main loop that takes line k, in the order
\* of the tests of the loop body
Dispatch(s, lns, k) ==
    LET line == lns[k + 1]
        text == LineText(s, line)
        trimmed == Trim(text)
    IN IF trimmed = <<>> THEN "blank"
       ELSE IF try_parse_category(line, text).some THEN "category"
       ELSE IF try_parse_references(line, text).some THEN "references"
       ELSE IF try_parse_magic_word(trimmed).some THEN "magic_word"
       ELSE IF trimmed = RuleText THEN "horizontal_rule"
       ELSE IF try_parse_heading(s, line).some THEN "heading"
       ELSE IF StartsWith(line_trimmed_start(s, line), <<"{", "|">>) THEN "table"
       ELSE IF try_parse_code_block(s, lns, k).some THEN "code_block"
       ELSE IF StartsWith(text, <<" ">>) THEN "leading_space"
       ELSE IF is_list_line(text) THEN "list"
       ELSE IF ParagraphEnd(s, lns, k) = k THEN "skip"
       ELSE "paragraph"

\* The progress guard without its forced advance: the driver takes the index the
\* handler returned as it is
GuardedAdvanceUnforced(k, next_i, line, code, message) ==
    [i |-> next_i, diags |-> <<>>]

\* parse_document: the progress guard after a handler returned next_i at line k
GuardedAdvance(k, next_i, line, code, message) ==
    IF next_i <= k
    THEN [i |-> k + 1,
          diags |-> <<Diagnostic("error", code, <<message, next_i, k>>,
                                 Span(line.start, line.end), <<>>)>>]
    ELSE [i |-> next_i, diags |-> <<>>]

AtMain(kind) == pc = "main" /\ i < Len(lines) /\ Dispatch(src, lines, i) = kind

\* The record of the last turn of the main loop: its branch, the line it
\* started at, and the index its handler returned (None without a handler).
Turn(kind, ret) == [kind |-> kind, at |-> i, ret |-> ret]

\* The redirect prologue skips a blank line
RedirectBlank ==
    /\ pc = "redirect" /\ i < Len(lines)
    /\ Trim(LineText(src, lines[i + 1])) = <<>>
    /\ i' = i + 1
    /\ step' = Turn("redirect_blank", None)
    /\ UNCHANGED <<md_file, write_opts, md_body, json, back, reading, remaining_depth, src, lines, pc, blocks, categories, redirect, diagnostics>>

\* The first non-blank line is a redirect
RedirectFound ==
    /\ pc = "redirect" /\ i < Len(lines)
    /\ Trim(LineText(src, lines[i + 1])) # <<>>
    /\ try_parse_redirect(lines[i + 1], LineText(src, lines[i + 1])).some
    /\ redirect' = Some(try_parse_redirect(lines[i + 1], LineText(src, lines[i + 1])).val)
    /\ i' = i + 1
    /\ pc' = "main"
    /\ step' = Turn("redirect", None)
    /\ UNCHANGED <<md_file, write_opts, md_body, json, back, reading, remaining_depth, src, lines, blocks, categories, diagnostics>>

\* The first non-blank line is not a redirect, or there is no such line
RedirectNone ==
    /\ pc = "redirect"
    /\ IF i >= Len(lines) THEN TRUE
       ELSE /\ Trim(LineText(src, lines[i + 1])) # <<>>
            /\ ~try_parse_redirect(lines[i + 1], LineText(src, lines[i + 1])).some
    /\ pc' = "main"
    /\ step' = Turn("no_redirect", None)
    /\ UNCHANGED <<md_file, write_opts, md_body, json, back, reading, remaining_depth, src, lines, i, blocks, categories, redirect, diagnostics>>

BlankLine ==
    /\ AtMain("blank")
    /\ i' = i + 1
    /\ step' = Turn("blank", None)
    /\ UNCHANGED <<md_file, write_opts, md_body, json, back, reading, remaining_depth, src, lines, pc, blocks, categories, redirect, diagnostics>>

Category ==
    /\ AtMain("category")
    /\ categories' = Append(categories,
                            try_parse_category(lines[i + 1], LineText(src, lines[i + 1])).val)
    /\ i' = i + 1
    /\ step' = Turn("category", None)
    /\ UNCHANGED <<md_file, write_opts, md_body, json, back, reading, remaining_depth, src, lines, pc, blocks, redirect, diagnostics>>

References ==
    /\ AtMain("references")
    /\ blocks' = Append(blocks,
                   [span |-> Span(lines[i + 1].start, lines[i + 1].end), type |-> "references",
                    node |-> try_parse_references(lines[i + 1],
                                                  LineText(src, lines[i + 1])).val])
    /\ i' = i + 1
    /\ step' = Turn("references", None)
    /\ UNCHANGED <<md_file, write_opts, md_body, json, back, reading, remaining_depth, src, lines, pc, categories, redirect, diagnostics>>

MagicWord ==
    /\ AtMain("magic_word")
    /\ blocks' = Append(blocks,
                   [span |-> Span(lines[i + 1].start, lines[i + 1].end), type |-> "magic_word",
                    name |-> Trim(LineText(src, lines[i + 1]))])
    /\ i' = i + 1
    /\ step' = Turn("magic_word", None)
    /\ UNCHANGED <<md_file, write_opts, md_body, json, back, reading, remaining_depth, src, lines, pc, categories, redirect, diagnostics>>

HorizontalRule ==
    /\ AtMain("horizontal_rule")
    /\ blocks' = Append(blocks, [span |-> Span(lines[i + 1].start, lines[i + 1].end),
                                 type |-> "horizontal_rule"])
    /\ i' = i + 1
    /\ step' = Turn("horizontal_rule", None)
    /\ UNCHANGED <<md_file, write_opts, md_body, json, back, reading, remaining_depth, src, lines, pc, categories, redirect, diagnostics>>

Heading ==
    /\ AtMain("heading")
    /\ LET Push(h, inl) ==
               /\ blocks' = Append(blocks,
                               [span |-> Span(lines[i + 1].start, lines[i + 1].end),
                                type |-> "heading", level |-> h.level, content |-> inl.nodes])
               /\ diagnostics' = diagnostics \o inl.diags
           Inner(h) == Push(h, parse_inlines(h.inner_start,
                                             Slice(src, h.inner_start, h.inner_end)))
       IN Inner(try_parse_heading(src, lines[i + 1]).val)
    /\ i' = i + 1
    /\ step' = Turn("heading", None)
    /\ UNCHANGED <<md_file, write_opts, md_body, json, back, reading, remaining_depth, src, lines, pc, categories, redirect>>

Table ==
    /\ AtMain("table")
    /\ LET line == lines[i + 1]
           Handled(r, adv) ==
               IF r.ok
               THEN /\ blocks' = Append(blocks, r.node)
                    /\ diagnostics' = diagnostics \o r.diags \o adv.diags
                    /\ i' = adv.i
                    /\ step' = Turn("table", Some(r.next))
               ELSE /\ diagnostics' = Append(diagnostics,
                          Diagnostic("warning", "wikitext.table.parse_failed",
                                     <<"Failed to parse table", r.err>>,
                                     Span(line.start, line.end), <<>>))
                    /\ blocks' = Append(blocks, [span |-> Span(line.start, line.end),
                                                 type |-> "raw", text |-> LineRaw(src, line)])
                    /\ i' = i + 1
                    /\ step' = Turn("table_raw", None)
           Guarded(r) ==
               Handled(r, GuardedAdvance(i, r.next, line, "wikitext.table.parse_failed",
                                         "Table parsing error: next index"))
       IN Guarded(parse_table(src, lines, i))
    /\ UNCHANGED <<md_file, write_opts, md_body, json, back, reading, remaining_depth, src, lines, pc, categories, redirect>>

CodeBlock ==
    /\ AtMain("code_block")
    /\ LET Handled(r, adv) ==
               /\ blocks' = Append(blocks, r.node)
               /\ diagnostics' = diagnostics \o r.diags \o adv.diags
               /\ i' = adv.i
               /\ step' = Turn("code_block", Some(r.next))
           Guarded(r) ==
               Handled(r, GuardedAdvance(i, r.next, lines[i + 1],
                                         "wikitext.html_codeblock.parse_failed",
                                         "Code block parsing error: next index"))
       IN Guarded(try_parse_code_block(src, lines, i))
    /\ UNCHANGED <<md_file, write_opts, md_body, json, back, reading, remaining_depth, src, lines, pc, categories, redirect>>

LeadingSpace ==
    /\ AtMain("leading_space")
    /\ LET Handled(r, adv) ==
               /\ blocks' = Append(blocks, r.node)
               /\ diagnostics' = diagnostics \o adv.diags
               /\ i' = adv.i
               /\ step' = Turn("leading_space", Some(r.next))
           Guarded(r) ==
               Handled(r, GuardedAdvance(i, r.next, lines[i + 1],
                                         "wikitext.indented_codeblock.parse_failed",
                                         "Code block parsing error: next index"))
       IN Guarded(parse_leading_space_block(src, lines, i))
    /\ UNCHANGED <<md_file, write_opts, md_body, json, back, reading, remaining_depth, src, lines, pc, categories, redirect>>

List ==
    /\ AtMain("list")
    /\ LET Handled(r, adv) ==
               /\ blocks' = Append(blocks, r.node)
               /\ diagnostics' = diagnostics \o r.diags \o adv.diags
               /\ i' = adv.i
               /\ step' = Turn("list", Some(r.next))
           Guarded(r) ==
               Handled(r, GuardedAdvance(i, r.next, lines[i + 1], "wikitext.list.parse_failed",
                                         "List parsing error: next index"))
       IN Guarded(parse_list_block(src, lines, i))
    /\ UNCHANGED <<md_file, write_opts, md_body, json, back, reading, remaining_depth, src, lines, pc, categories, redirect>>

Paragraph ==
    /\ AtMain("paragraph")
    /\ LET Push(end_i, para_start, para_end, inl) ==
               /\ blocks' = Append(blocks, [span |-> Span(para_start, para_end),
                                            type |-> "paragraph", content |-> inl.nodes])
               /\ diagnostics' = diagnostics \o inl.diags
               /\ i' = end_i
               /\ step' = Turn("paragraph", Some(end_i))
           Gathered(end_i, para_start, para_end) ==
               Push(end_i, para_start, para_end,
                    parse_inlines(para_start, Slice(src, para_start, para_end)))
           Lines(end_i) == Gathered(end_i, lines[i + 1].start, lines[end_i].end)
       IN Lines(ParagraphEnd(src, lines, i))
    /\ UNCHANGED <<md_file, write_opts, md_body, json, back, reading, remaining_depth, src, lines, pc, categories, redirect>>

\* The paragraph branch gathered no line: the line is skipped
SkipLine ==
    /\ AtMain("skip")
    /\ i' = i + 1
    /\ step' = Turn("skip", Some(ParagraphEnd(src, lines, i)))
    /\ UNCHANGED <<md_file, write_opts, md_body, json, back, reading, remaining_depth, src, lines, pc, blocks, categories, redirect, diagnostics>>

\* The main loop ends and the Document is built
Finish ==
    /\ pc = "main" /\ i >= Len(lines)
    /\ pc' = "done"
    /\ step' = Turn("finish", None)
    /\ UNCHANGED <<md_file, write_opts, md_body, json, back, reading, remaining_depth, src, lines, i, blocks, categories, redirect, diagnostics>>

\* parse_document: the Document and the diagnostics of a finished parse
Document == [span |-> Span(0, Len(src)), blocks |-> blocks,
             categories |-> categories, redirect |-> redirect]

----------------------------------------------------------------------------
(* ast: the shape of the nodes and the JSON form serde derives from it *)

\* The types of the fields: a scalar (string, number, bool, unit variant),
\* a Span, a Vec of a type, a struct or a tagged enum by name
Scalar == [k |-> "scalar"]
SpanType == [k |-> "span"]
Vec(ty) == [k |-> "vec", of |-> ty]
Struct(n) == [k |-> "struct", n |-> n]

\* The fields by their serde attributes: a plain field, an Option with
\* default and skip_serializing_if = "Option::is_none", a Vec with default and
\* skip_serializing_if = "Vec::is_empty", a Vec with default alone. The
\* struct of an enum variant is kept in the node itself: its fields are those
\* of the node, its JSON form an object of its own under the variant's key.
Plain(name, ty) == [name |-> name, ty |-> ty, mode |-> "plain"]
Optional(name, ty) == [name |-> name, ty |-> ty, mode |-> "option"]
SkipEmpty(name, ty) == [name |-> name, ty |-> ty, mode |-> "skip_empty"]
Defaulted(name, ty) == [name |-> name, ty |-> ty, mode |-> "default"]
Embedded(name, ty) == [name |-> name, ty |-> ty, mode |-> "embedded"]

\* The fields of the struct n, or of the variant tag of the tagged enum n
\* flattened into its node
Shape(n, tag) ==
    LET Node(fields) == <<Plain("span", SpanType), Plain("type", Scalar)>> \o fields
        attrs == SkipEmpty("attrs", Vec(Struct("html_attr")))
        content == Plain("content", Vec(Struct("inline")))
        span == Plain("span", SpanType)
    IN CASE n = "ast_file" ->
              <<Plain("schema_version", Scalar), Plain("parser", Struct("parser_info")),
                Plain("span_encoding", Struct("span_encoding")),
                Plain("article_id", Scalar), Plain("source", Struct("source_info")),
                SkipEmpty("diagnostics", Vec(Struct("diagnostic"))),
                Plain("document", Struct("document"))>>
         [] n = "parser_info" -> <<Plain("name", Scalar), Plain("version", Scalar)>>
         [] n = "span_encoding" -> <<Plain("unit", Scalar), Plain("base", Scalar)>>
         [] n = "source_info" ->
              <<Optional("path", Scalar), Optional("sha256", Scalar),
                Plain("byte_len", Scalar)>>
         [] n = "diagnostic" ->
              <<Plain("severity", Scalar), Optional("phase", Scalar),
                Optional("code", Scalar), Plain("message", Scalar),
                Optional("span", SpanType), SkipEmpty("notes", Vec(Scalar))>>
         [] n = "document" ->
              <<span, Defaulted("blocks", Vec(Struct("block"))),
                SkipEmpty("categories", Vec(Struct("category_tag"))),
                Optional("redirect", Struct("redirect"))>>
         [] n = "category_tag" -> <<span, Plain("name", Scalar), Optional("sort_key", Scalar)>>
         [] n = "redirect" -> <<span, Plain("target", Scalar), Optional("anchor", Scalar)>>
         [] n = "block" ->
              (CASE tag = "heading" -> Node(<<Plain("level", Scalar), content>>)
                 [] tag = "paragraph" -> Node(<<content>>)
                 [] tag = "list" -> Node(<<Plain("items", Vec(Struct("list_item")))>>)
                 [] tag = "table" -> Node(<<Plain("table", Struct("table"))>>)
                 [] tag = "code_block" -> Node(<<Plain("block", Struct("code_block"))>>)
                 [] tag = "references" -> Node(<<Plain("node", Struct("references_node"))>>)
                 [] tag = "magic_word" -> Node(<<Plain("name", Scalar)>>)
                 [] tag = "horizontal_rule" -> Node(<<>>)
                 [] tag = "raw" -> Node(<<Plain("text", Scalar)>>))
         [] n = "list_item" ->
              <<span, Plain("marker", Scalar), Defaulted("blocks", Vec(Struct("block")))>>
         [] n = "code_block" ->
              <<Plain("kind", Scalar), Optional("lang", Scalar), Plain("text", Scalar)>>
         [] n = "references_node" -> <<attrs>>
         [] n = "html_attr" ->
              <<Plain("name", Scalar), Optional("value", Scalar), Optional("span", SpanType)>>
         [] n = "inline" ->
              (CASE tag = "text" -> Node(<<Plain("value", Scalar)>>)
                 [] tag \in {"bold", "italic", "bold_italic"} -> Node(<<content>>)
                 [] tag = "internal_link" -> Node(<<Embedded("link", Struct("internal_link"))>>)
                 [] tag = "external_link" -> Node(<<Embedded("link", Struct("external_link"))>>)
                 [] tag = "file_link" -> Node(<<Embedded("link", Struct("file_link"))>>)
                 [] tag = "line_break" -> Node(<<>>)
                 [] tag = "ref" -> Node(<<Embedded("node", Struct("ref_node"))>>)
                 [] tag = "html_tag" -> Node(<<Embedded("node", Struct("html_tag"))>>)
                 [] tag = "template" ->
                      Node(<<Embedded("node", Struct("template_invocation"))>>)
                 [] tag = "raw" -> Node(<<Plain("text", Scalar)>>))
         [] n = "internal_link" ->
              <<Plain("target", Scalar), Optional("anchor", Scalar),
                Optional("text", Vec(Struct("inline")))>>
         [] n = "external_link" ->
              <<Plain("url", Scalar), Optional("text", Vec(Struct("inline")))>>
         [] n = "file_link" ->
              <<Plain("namespace", Scalar), Plain("target", Scalar),
                SkipEmpty("params", Vec(Struct("file_param")))>>
         [] n = "ref_node" ->
              <<attrs, Optional("content", Vec(Struct("inline"))),
                Plain("self_closing", Scalar)>>
         [] n = "html_tag" ->
              <<Plain("name", Scalar), attrs, SkipEmpty("children", Vec(Struct("inline"))),
                Plain("self_closing", Scalar)>>
         [] n = "template_invocation" ->
              <<Plain("name", Struct("template_name")),
                SkipEmpty("params", Vec(Struct("template_param")))>>
         [] n = "file_param" -> <<span, content>>
         [] n = "template_name" -> <<Plain("raw", Scalar), Plain("kind", Scalar)>>
         [] n = "template_param" ->
              <<span, Optional("name", Scalar), Plain("value", Vec(Struct("inline")))>>
         [] n = "table" ->
              <<attrs, Optional("caption", Struct("table_caption")),
                Defaulted("rows", Vec(Struct("table_row")))>>
         [] n = "table_caption" -> <<span, attrs, content>>
         [] n = "table_row" -> <<span, attrs, Defaulted("cells", Vec(Struct("table_cell")))>>
         [] n = "table_cell" ->
              <<span, Plain("kind", Scalar), attrs, Optional("colspan", Scalar),
                Optional("rowspan", Scalar), Defaulted("blocks", Vec(Struct("block")))>>

\* The tagged enums carry their variant in the field type
TagOf(n, v) == IF n \in {"block", "inline"} THEN v.type ELSE ""

\* The value of the field f of the node v
FieldValue(f, v) ==
    CASE f.mode = "option" -> v[f.name].val
      [] f.mode = "embedded" -> v
      [] OTHER -> v[f.name]

\* The fields of the node v of struct n that hold a value, and those that
\* are serialized
PresentFields(n, v) ==
    LET Present(f) == f.mode = "option" => v[f.name].some
    IN SelectSeq(Shape(n, TagOf(n, v)), Present)
WrittenFields(n, v) ==
    LET Written(f) ==
            CASE f.mode = "option" -> v[f.name].some
              [] f.mode = "skip_empty" -> v[f.name] # <<>>
              [] OTHER -> TRUE
    IN SelectSeq(Shape(n, TagOf(n, v)), Written)

\* Every Span held by the value v of type ty, at any depth
RECURSIVE SpansOf(_, _)
SpansOf(ty, v) ==
    CASE ty.k = "scalar" -> {}
      [] ty.k = "span" -> {v}
      [] ty.k = "vec" -> UNION {SpansOf(ty.of, v[k]) : k \in 1..Len(v)}
      [] ty.k = "struct" ->
           UNION {SpansOf(PresentFields(ty.n, v)[k].ty,
                          FieldValue(PresentFields(ty.n, v)[k], v)) :
                     k \in 1..Len(PresentFields(ty.n, v))}

\* Serialize: the JSON value of v. A struct is an object of its fields, without
\* an Option that is None and a skipped Vec that is empty.
RECURSIVE ToJson(_, _)
ToJson(ty, v) ==
    CASE ty.k = "scalar" -> [j |-> "value", v |-> v]
      [] ty.k = "span" ->
           [j |-> "object", keys |-> <<"start", "end">>,
            items |-> <<[j |-> "value", v |-> v[1]], [j |-> "value", v |-> v[2]]>>]
      [] ty.k = "vec" -> [j |-> "array", items |-> [k \in 1..Len(v) |-> ToJson(ty.of, v[k])]]
      [] ty.k = "struct" ->
           [j |-> "object",
            keys |-> [k \in 1..Len(WrittenFields(ty.n, v)) |-> WrittenFields(ty.n, v)[k].name],
            items |-> [k \in 1..Len(WrittenFields(ty.n, v)) |->
                          ToJson(WrittenFields(ty.n, v)[k].ty,
                                 FieldValue(WrittenFields(ty.n, v)[k], v))]]

\* The member of a JSON object by its key
JsonHas(j, key) == \E k \in 1..Len(j.keys) : j.keys[k] = key
JsonGet(j, key) == j.items[CHOOSE k \in 1..Len(j.keys) : j.keys[k] = key]

\* The fields of the struct n as the JSON object j gives them: the variant of
\* a tagged enum is chosen by the member "type"
ShapeIn(n, j) == Shape(n, IF n \in {"block", "inline"} THEN JsonGet(j, "type").v ELSE "")

\* The field names of the node of struct n that the JSON object j holds
RECURSIVE NamesIn(_, _)
NamesIn(n, j) ==
    UNION {IF ShapeIn(n, j)[k].mode = "embedded"
           THEN NamesIn(ShapeIn(n, j)[k].ty.n, JsonGet(j, ShapeIn(n, j)[k].name))
           ELSE {ShapeIn(n, j)[k].name} : k \in 1..Len(ShapeIn(n, j))}

\* Deserialize: the value of type ty that the JSON value j holds. A missing
\* Option is None and a missing Vec with default is empty.
RECURSIVE FromJson(_, _)
RECURSIVE FieldFrom(_, _, _)
FieldFrom(n, j, name) ==
    LET Own(f) ==
            CASE f.mode = "option" ->
                   IF JsonHas(j, name) THEN Some(FromJson(f.ty, JsonGet(j, name))) ELSE None
              [] f.mode \in {"skip_empty", "default"} ->
                   IF JsonHas(j, name) THEN FromJson(f.ty, JsonGet(j, name)) ELSE <<>>
              [] OTHER -> FromJson(f.ty, JsonGet(j, name))
        Inner(f) == FieldFrom(f.ty.n, JsonGet(j, f.name), name)
        Found(own, inner) == IF own # <<>> THEN Own(own[1]) ELSE Inner(inner[1])
        Has(f) == f.name = name /\ f.mode # "embedded"
        Holds(f) == f.mode = "embedded"
    IN Found(SelectSeq(ShapeIn(n, j), Has), SelectSeq(ShapeIn(n, j), Holds))
FromJson(ty, j) ==
    CASE ty.k = "scalar" -> j.v
      [] ty.k = "span" -> Span(JsonGet(j, "start").v, JsonGet(j, "end").v)
      [] ty.k = "vec" -> [k \in 1..Len(j.items) |-> FromJson(ty.of, j.items[k])]
      [] ty.k = "struct" -> [name \in NamesIn(ty.n, j) |-> FieldFrom(ty.n, j, name)]

\* The arrays and objects held by the arrays and objects of the sequence js
RECURSIVE Entered(_)
Entered(js) ==
    IF js = <<>> THEN <<>>
    ELSE SelectSeq(Head(js).items, LAMBDA c : c.j # "value") \o Entered(Tail(js))

\* serde_json starts with a budget of RecursionLimit levels, takes one for each
\* array or object it enters and gives up when none is left
RecursionLimit == 128

\* serde_json::to_string_pretty and serde_json::from_str of an AstFile
to_string_pretty(value) == ToJson(Struct("ast_file"), value)
from_str(text) == FromJson(Struct("ast_file"), text)

\* ast/mod.rs: the schema version of the envelope
SCHEMA_VERSION == 1

\* The envelope of a parse result, with no path and no hash of the source
AstFile(document, diags) ==
    [schema_version |-> SCHEMA_VERSION,
     parser |-> [name |-> "wiki2md", version |-> "CARGO_PKG_VERSION"],
     span_encoding |-> [unit |-> "byte", base |-> "raw_input"],
     article_id |-> "Test",
     source |-> [path |-> None, sha256 |-> None, byte_len |-> Len(src)],
     diagnostics |-> diags,
     document |-> document]

----------------------------------------------------------------------------
(* The parse result as a JSON file *)

\* The envelope of the parse result is serialized
Serialize ==
    /\ pc = "done"
    /\ json' = Some(to_string_pretty(AstFile(Document, diagnostics)))
    /\ reading' = <<json'.val>>
    /\ remaining_depth' = RecursionLimit
    /\ pc' = "serialized"
    /\ UNCHANGED <<md_file, write_opts, md_body, back, src, lines, i, blocks, categories, redirect,
                   diagnostics, step>>

\* The reader enters the arrays and objects of the next level of the JSON text
\* and fails when its budget is spent
Enter ==
    /\ pc = "serialized" /\ reading # <<>>
    /\ remaining_depth' = remaining_depth - 1
    /\ IF remaining_depth' = 0
       THEN /\ back' = Some([ok |-> FALSE])
            /\ pc' = "deserialized"
            /\ UNCHANGED reading
       ELSE /\ reading' = Entered(reading)
            /\ UNCHANGED <<back, pc>>
    /\ UNCHANGED <<md_file, write_opts, md_body, json, src, lines, i, blocks, categories, redirect,
                   diagnostics, step>>

\* The reader has left every array and object: the envelope is read back
Deserialize ==
    /\ pc = "serialized" /\ reading = <<>>
    /\ back' = Some([ok |-> TRUE, val |-> from_str(json.val)])
    /\ pc' = "deserialized"
    /\ UNCHANGED <<md_file, write_opts, md_body, json, reading, remaining_depth, src, lines, i,
                   blocks, categories, redirect, diagnostics, step>>

----------------------------------------------------------------------------
(* lib.rs, frontmatter.rs: the Markdown file of the article *)

\* Frontmatter::to_yaml_string: the block that build_frontmatter gives for the
\* article, from "---" to "---"; of its keys only the first of wiki2md and the
\* head of aliases are kept, and none that a regeneration carries over
to_yaml_string ==
    <<"-", "-", "-", "\n", "w", "i", "k", "i", "2", "m", "d", ":", "\n", " ", " ", "a", "r", "t", "i", "c", "l", "e", "_", "i", "d", ":", " ", "T", "e", "s", "t", "\n", "a", "l", "i", "a", "s", "e", "s", ":", "\n", "-", "-", "-", "\n">>

\* split_yaml_frontmatter: the frontmatter block at the start of text, with both
\* of its "---" lines, and the rest of text; None when text has none
split_yaml_frontmatter(text) ==
    LET \* str::split_inclusive: the offsets at which the pieces end
        ends == {k \in 1..Len(text) : text[k] = "\n"} \cup {Len(text)}
        first == Min(ends)
        \* the piece that ends at pos starts where the piece before it ends
        Piece(pos) == Slice(text, Max({e \in ends : e < pos}), pos)
        closing == {pos \in ends :
                       /\ pos > first
                       /\ TrimEndMatches(Piece(pos), {"\n", "\r"}) = <<"-", "-", "-">>}
    IN IF ~StartsWith(text, <<"-", "-", "-">>) THEN None
       ELSE IF ~(\/ StartsWith(text, <<"-", "-", "-", "\n">>)
                 \/ StartsWith(text, <<"-", "-", "-", "\r", "\n">>)) THEN None
       ELSE IF closing = {} THEN None
       ELSE Some(<<Slice(text, 0, Min(closing)), From(text, Min(closing))>>)

\* The file written with a generated block whatever the file held
write_markdown_file_generated(existing, body, opts) ==
    to_yaml_string \o <<"\n">> \o TrimStartMatches(body, {"\n", "\r"})

\* write_markdown_file: the text written to md_path, which held existing
write_markdown_file(existing, body, opts) ==
    LET Out(fm) ==
            fm \o (IF EndsWith(fm, <<"\n">>) THEN <<>> ELSE <<"\n">>) \o <<"\n">>
               \o TrimStartMatches(body, {"\n", "\r"})
    IN IF /\ existing.some
          /\ split_yaml_frontmatter(existing.val).some
          /\ ~opts.regenerate_frontmatter
       THEN Out(split_yaml_frontmatter(existing.val).val[1])
       ELSE Out(to_yaml_string)

\* render_markdown_from_json: the envelope was read back, the document is
\* rendered to md_body and the Markdown file is written
WriteMarkdown ==
    /\ pc = "deserialized" /\ back.val.ok
    /\ md_file' = Some(write_markdown_file(md_file, md_body, write_opts))
    /\ pc' = "written"
    /\ UNCHANGED <<write_opts, md_body, json, back, reading, remaining_depth, src, lines, i,
                   blocks, categories, redirect, diagnostics, step>>

Next ==
    \/ RedirectBlank \/ RedirectFound \/ RedirectNone
    \/ BlankLine \/ Category \/ References \/ MagicWord \/ HorizontalRule
    \/ Heading \/ Table \/ CodeBlock \/ LeadingSpace \/ List
    \/ Paragraph \/ SkipLine \/ Finish
    \/ Serialize \/ Enter \/ Deserialize \/ WriteMarkdown

\* The state of parse_document when it enters the redirect prologue
Start(s) ==
    /\ src = s
    /\ lines = collect_lines(s)
    /\ i = 0
    /\ pc = "redirect"
    /\ blocks = <<>>
    /\ categories = <<>>
    /\ redirect = None
    /\ diagnostics = <<>>
    /\ step = [kind |-> "start", at |-> 0, ret |-> None]
    /\ json = None
    /\ back = None
    /\ reading = <<>>
    /\ remaining_depth = RecursionLimit

\* The state of the Markdown file, of the options and of the rendered body when
\* the article is regenerated
StartWrite(w) ==
    /\ md_file = w[1]
    /\ write_opts = [regenerate_frontmatter |-> w[2]]
    /\ md_body = w[3]

----------------------------------------------------------------------------
(* The inputs of parse_document *)

\* Documents of the tests of the repository and of the forms of the grammar
Corpus ==
        \* =Title=\nSee [[Other Page|link]].\n
    LET DocHeadingLink ==
            <<"=", "T", "i", "t", "l", "e", "=", "\n", "S", "e", "e", " ", "[", "[", "O", "t", "h", "e",
            "r", " ", "P", "a", "g", "e", "|", "l", "i", "n", "k", "]", "]", ".", "\n">>
        \* Text<ref name="a">Ref body</ref>\n<references />\n
        DocRefReferences ==
            <<"T", "e", "x", "t", "<", "r", "e", "f", " ", "n", "a", "m", "e", "=", "\"", "a", "\"",
            ">", "R", "e", "f", " ", "b", "o", "d", "y", "<", "/", "r", "e", "f", ">", "\n", "<", "r",
            "e", "f", "e", "r", "e", "n", "c", "e", "s", " ", "/", ">", "\n">>
        \* {| class="wikitable"\n|-\n! H1 !! H2\n|-\n| A || B\n|}\n
        DocBasicTable ==
            <<"{", "|", " ", "c", "l", "a", "s", "s", "=", "\"", "w", "i", "k", "i", "t", "a", "b", "l",
            "e", "\"", "\n", "|", "-", "\n", "!", " ", "H", "1", " ", "!", "!", " ", "H", "2", "\n",
            "|", "-", "\n", "|", " ", "A", " ", "|", "|", " ", "B", "\n", "|", "}", "\n">>
        \* \n#REDIRECT [[B#c]]\nx
        DocRedirect ==
            <<"\n", "#", "R", "E", "D", "I", "R", "E", "C", "T", " ", "[", "[", "B", "#", "c", "]", "]",
            "\n", "x">>
        \* #redirect x
        DocRedirectBare == <<"#", "r", "e", "d", "i", "r", "e", "c", "t", " ", "x">>
        \* a\n[[Category:A|s]]\n[[category: B]]
        DocCategory ==
            <<"a", "\n", "[", "[", "C", "a", "t", "e", "g", "o", "r", "y", ":", "A", "|", "s", "]", "]",
            "\n", "[", "[", "c", "a", "t", "e", "g", "o", "r", "y", ":", " ", "B", "]", "]">>
        \* __TOC__\n----\n
        DocMagicRule == <<"_", "_", "T", "O", "C", "_", "_", "\n", "-", "-", "-", "-", "\n">>
        \*  code\n  more\nx
        DocIndented == <<" ", "c", "o", "d", "e", "\n", " ", " ", "m", "o", "r", "e", "\n", "x">>
        \* *a\n**b\n*c\n
        DocList == <<"*", "a", "\n", "*", "*", "b", "\n", "*", "c", "\n">>
        \* # x\n:;y\n\n::z
        DocListMixed == <<"#", " ", "x", "\n", ":", ";", "y", "\n", "\n", ":", ":", "z">>
        \* [[FILE:Example.jpg|thumb|An example]]
        DocFileLink ==
            <<"[", "[", "F", "I", "L", "E", ":", "E", "x", "a", "m", "p", "l", "e", ".", "j", "p", "g",
            "|", "t", "h", "u", "m", "b", "|", "A", "n", " ", "e", "x", "a", "m", "p", "l", "e", "]",
            "]">>
        \* {{tpl|a=b|c}} {{#if:x|y}}
        DocTemplates ==
            <<"{", "{", "t", "p", "l", "|", "a", "=", "b", "|", "c", "}", "}", " ", "{", "{", "#", "i",
            "f", ":", "x", "|", "y", "}", "}">>
        \* [http://x.org l] ''i'' '''b''' '''''c'''''
        DocEmphasis ==
            <<"[", "h", "t", "t", "p", ":", "/", "/", "x", ".", "o", "r", "g", " ", "l", "]", " ", "'",
            "'", "i", "'", "'", " ", "'", "'", "'", "b", "'", "'", "'", " ", "'", "'", "'", "'", "'",
            "c", "'", "'", "'", "'", "'">>
        \* a<br/>b<span id="x">y</span><ref/>
        DocHtml ==
            <<"a", "<", "b", "r", "/", ">", "b", "<", "s", "p", "a", "n", " ", "i", "d", "=", "\"", "x",
            "\"", ">", "y", "<", "/", "s", "p", "a", "n", ">", "<", "r", "e", "f", "/", ">">>
        \* <ref>a\n<span>b
        DocUnclosedRef == <<"<", "r", "e", "f", ">", "a", "\n", "<", "s", "p", "a", "n", ">", "b">>
        \* {|\n|+ cap\n| style="x" | c1\nmore\n{|\n|}\n|}\nafter
        DocNestedTable ==
            <<"{", "|", "\n", "|", "+", " ", "c", "a", "p", "\n", "|", " ", "s", "t", "y", "l", "e",
            "=", "\"", "x", "\"", " ", "|", " ", "c", "1", "\n", "m", "o", "r", "e", "\n", "{", "|",
            "\n", "|", "}", "\n", "|", "}", "\n", "a", "f", "t", "e", "r">>
        \* {|\nx\n! colspan=2 | h
        DocOpenTable ==
            <<"{", "|", "\n", "x", "\n", "!", " ", "c", "o", "l", "s", "p", "a", "n", "=", "2", " ",
            "|", " ", "h">>
        \* <pre>code</pre> tail\n\n
        DocPreTail ==
            <<"<", "p", "r", "e", ">", "c", "o", "d", "e", "<", "/", "p", "r", "e", ">", " ", "t", "a",
            "i", "l", "\n", "\n">>
        \* <syntaxhighlight lang="c">\nint x;\n</syntaxhighlight>\n
        DocSyntaxHighlight ==
            <<"<", "s", "y", "n", "t", "a", "x", "h", "i", "g", "h", "l", "i", "g", "h", "t", " ", "l",
            "a", "n", "g", "=", "\"", "c", "\"", ">", "\n", "i", "n", "t", " ", "x", ";", "\n", "<",
            "/", "s", "y", "n", "t", "a", "x", "h", "i", "g", "h", "l", "i", "g", "h", "t", ">", "\n">>
        \* <references>\nx
        DocReferencesOpen == <<"<", "r", "e", "f", "e", "r", "e", "n", "c", "e", "s", ">", "\n", "x">>
        \* <pre\nx
        DocPreNoGt == <<"<", "p", "r", "e", "\n", "x">>
        \* =h=\r\n<pre>\r\nx\r\n
        DocCrLf == <<"=", "h", "=", "\r", "\n", "<", "p", "r", "e", ">", "\r", "\n", "x", "\r", "\n">>
        \* See [[Category:A]] x\n[[Category:B]]\n
        DocCategoryInline ==
            <<"S", "e", "e", " ", "[", "[", "C", "a", "t", "e", "g", "o", "r", "y", ":", "A", "]", "]", " ",
            "x", "\n", "[", "[", "C", "a", "t", "e", "g", "o", "r", "y", ":", "B", "]", "]", "\n">>
        \* [[File:a.jpg|thumb|c <ref>[[b]]</ref>]]
        DocFileNested ==
            <<"[", "[", "F", "i", "l", "e", ":", "a", ".", "j", "p", "g", "|", "t", "h", "u", "m", "b", "|",
            "c", " ", "<", "r", "e", "f", ">", "[", "[", "b", "]", "]", "<", "/", "r", "e", "f", ">", "]",
            "]">>
        \*  a\n\n b\n
        DocIndentedBlank ==
            <<" ", "a", "\n", "\n", " ", "b", "\n">>
        \* lines that more than one detector accepts
        DocPrecedence ==
            <<" ", "*", " ", "a", "\n", "\n", " ", "-", "-", "-", "-", "\n", "\n", " ", "_", "_", "T", "O",
            "C", "_", "_", "\n", "\n", " ", "{", "|", "\n", "|", "}", "\n", "\n", " ", "<", "p", "r", "e",
            ">", "x", "<", "/", "p", "r", "e", ">", "\n", "\n", "*", " ", "b", "\n">>
        \* a cell whose text starts on the line after its marker
        DocCellContinued ==
            <<"{", "|", "\n", "|", "\n", "f", "o", "o", "\n", "|", "}", "\n">>
        \* a cell of two lines that end with CR LF
        DocCellCrLf ==
            <<"{", "|", "\r", "\n", "|", " ", "a", "\r", "\n", "b", "\r", "\n", "|", "}", "\r", "\n">>
        \* tags whose names start with br, ref and span
        DocTagPrefix ==
            <<"a", " ", "<", "b", "r", "o", "w", "n", ">", " ", "b", " ", "<", "r", "e", "f", "e", "r", "e",
            "n", "c", "e", "s", "/", ">", " ", "c", " ", "<", "s", "p", "a", "n", "n", "e", "r", ">", "d",
            "<", "/", "s", "p", "a", "n", ">", "\n">>
    IN {DocHeadingLink, DocRefReferences, DocBasicTable, DocRedirect,
        DocRedirectBare, DocCategory, DocMagicRule, DocIndented,
        DocList, DocListMixed, DocFileLink, DocTemplates,
        DocEmphasis, DocHtml, DocUnclosedRef, DocNestedTable,
        DocOpenTable, DocPreTail, DocSyntaxHighlight, DocReferencesOpen,
        DocPreNoGt, DocCrLf, DocCategoryInline, DocFileNested, DocIndentedBlank, DocPrecedence, DocCellContinued, DocCellCrLf, DocTagPrefix}


\* A line that opens a <pre> or <syntaxhighlight> tag, closed or not, with or
\* without text after the closing tag, ended by nothing, LF or CRLF
TagInputs ==
    LET TagLead == {<<>>, <<" ">>}
        TagOpen ==
            {<<"<", "p", "r", "e", ">">>, <<"<", "P", "R", "E", ">">>,
             <<"<", "s", "y", "n", "t", "a", "x", "h", "i", "g", "h", "l", "i", "g", "h", "t",
               " ", "l", "a", "n", "g", "=", "\"", "c", "\"", ">">>}
        TagBody == {<<>>, <<"a">>, <<"a", "\n", "b">>}
        TagClose ==
            {<<>>, <<"<", "/", "p", "r", "e", ">">>,
             <<"<", "/", "s", "y", "n", "t", "a", "x", "h", "i", "g", "h", "l", "i", "g", "h",
               "t", ">">>}
        TagTail == {<<>>, <<" ", "t">>}
        TagEol == {<<>>, <<"\n">>, <<"\r", "\n">>}
        TagRest == {<<>>, <<"x", "\n">>}
    IN {l \o o \o b \o c \o t \o e \o r :
           l \in TagLead, o \in TagOpen, b \in TagBody, c \in TagClose, t \in TagTail,
           e \in TagEol, r \in TagRest}

\* A line with a run of "=" at each end, of up to MaxEq characters
MaxEq == 7
HeadingInputs ==
    LET HeadingLead == {<<>>, <<" ">>}
        HeadingMid == {<<>>, <<"a">>, <<" ", "a", " ">>}
        HeadingTrail == {<<>>, <<" ">>, <<"\r">>}
    IN {l \o Repeat("=", n) \o m \o Repeat("=", k) \o t :
           l \in HeadingLead, n \in 0..MaxEq, m \in HeadingMid, k \in 0..MaxEq,
           t \in HeadingTrail}

\* A run of up to MaxRun opening delimiters without a closer
MaxRun == 12
RunInputs ==
    {Repeat(c, n) \o t : c \in {"{", "["}, n \in 1..MaxRun, t \in {<<>>, <<"a">>}}

\* A list line with a run of up to MaxMarkers markers, and one with a run of
\* DeepRun markers, whose JSON nests deeper than serde_json reads
MaxMarkers == 6
DeepRun == 32
DeepLists == {Repeat(":", d) \o <<"i", "t", "e", "m", "\n">> : d \in (1..MaxMarkers) \cup {DeepRun}}

\* Every concatenation of up to MaxFrags fragments of the grammar
MaxFrags == 3
RECURSIVE Combos(_, _)
Combos(vocab, n) ==
    IF n = 0 THEN {<<>>}
    ELSE {c \o vocab[k] : c \in Combos(vocab, n - 1), k \in 1..Len(vocab)}
FragInputs ==
    LET FragVocab ==
            <<<<"a">>, <<"\n">>, <<" ">>, <<"=">>, <<"<", "p", "r", "e", ">">>,
              <<"<", "/", "p", "r", "e", ">">>, <<":">>, <<"\r">>, <<"[", "[">>, <<"]", "]">>,
              <<"{", "{">>, <<"}", "}">>, <<"|">>, <<"'", "'">>>>
    IN UNION {Combos(FragVocab, n) : n \in 0..MaxFrags}

\* A template: its name and a "|", then up to MaxTplFrags fragments of the
\* grammar of templates before its "}}"
MaxTplFrags == 4
TemplateInputs ==
    LET TplVocab == <<<<"{", "{">>, <<"}", "}">>, <<"[", "[">>, <<"]", "]">>, <<"|">>,
                      <<"=">>, <<"b">>>>
    IN {<<"{", "{", "t", "|">> \o c \o <<"}", "}">> :
            c \in UNION {Combos(TplVocab, n) : n \in 0..MaxTplFrags}}

\* Every run of n lines of a vocabulary of lines
RECURSIVE Runs(_, _)
Runs(vocab, n) ==
    IF n = 0 THEN {<<>>}
    ELSE {c \o vocab[k] \o <<"\n">> : c \in Runs(vocab, n - 1), k \in 1..Len(vocab)}

\* A table: the "{|" line, alone or with an open cell that holds a nested "{|",
\* then up to MaxTableLines lines of the table grammar
MaxTableLines == 3
TableInputs ==
    LET TableVocab ==
            <<<<"{", "|">>, <<"|", "}">>, <<"|", "-">>, <<"|", "+", " ", "c">>,
              <<"!", " ", "h", " ", "!", "!", " ", "g">>,
              <<"|", " ", "a", " ", "|", "|", " ", "b">>,
              <<"|", " ", "x", "=", "1", " ", "|", " ", "c">>,
              <<"|", " ", "a", " ", "|", " ", "b">>,
              <<"t">>, <<>>,
              <<"|", " ", "[", "[", "a", "|", "b", "]", "]", " ", "|", "|", " ", "{", "{", "c", "|",
                "|", "d", "}", "}">>,
              <<"|", " ", "t", "=", "\"", "|", "\"", " ", "|", " ", "c">>>>
    IN {p \o t : p \in {<<"{", "|", "\n">>,
                        <<"{", "|", "\n", "|", " ", "a", "\n", "{", "|", "\n">>},
                 t \in UNION {Runs(TableVocab, n) : n \in 0..MaxTableLines}}

\* A list of up to MaxListLines lines with runs of one to three markers
MaxListLines == 3
ListInputs ==
    LET ListVocab ==
            <<<<"*", "a">>, <<"*", "*", "b">>, <<"*", "*", "*", "c">>, <<"#", "d">>,
              <<"*", "#", "e">>, <<":", ":", "f">>>>
    IN UNION {Runs(ListVocab, n) : n \in 1..MaxListLines}

\* A paragraph of up to MaxRefLines lines with <ref> tags, closed or not
MaxRefLines == 3
RefInputs ==
    LET RefVocab ==
            <<<<"<", "r", "e", "f", ">", "a">>, <<"b", "<", "/", "r", "e", "f", ">">>,
              <<"'", "'", "c", " ", "<", "r", "e", "f", " ", "n", "a", "m", "e", "=", "x", ">",
                "d", "'", "'">>,
              <<"[", "[", "e", "|", "f", "]", "]", " ", "<", "R", "E", "F", ">">>,
              <<"<", "r", "e", "f", "/", ">">>,
              <<"x", " ", "'", "'", "y", "'", "'">>>>
    IN UNION {Runs(RefVocab, n) : n \in 1..MaxRefLines}

\* The head of a document: up to MaxRedirectLines lines, blank, of text, or with
\* a redirect, well formed or not
MaxRedirectLines == 3
RedirectInputs ==
    LET RedirectVocab ==
            <<<<"#", "R", "E", "D", "I", "R", "E", "C", "T", " ", "[", "[", "A", "#", "b", "]", "]">>,
              <<"#", "r", "e", "d", "i", "r", "e", "c", "t", " ", "x">>,
              <<>>,
              <<" ">>,
              <<"t">>,
              <<" ", "#", "R", "e", "d", "i", "r", "e", "c", "t", " ", "[", "[", "A">>>>
    IN UNION {Runs(RedirectVocab, n) : n \in 1..MaxRedirectLines}

Inputs ==
    Corpus \cup TagInputs \cup HeadingInputs \cup RunInputs \cup DeepLists \cup FragInputs
        \cup TableInputs \cup ListInputs \cup RefInputs \cup TemplateInputs
        \cup RedirectInputs \cup {<<"=", "T", "=", "\n", "B", "\n">>}

\* The article of the frontmatter tests with the Markdown files it may meet:
\* none, or one with a frontmatter block, closed or not, or without one; the
\* options; and the bodies the renderer may give. The other inputs meet no
\* file.
WriteInputs(s) ==
    LET ArticleDoc == <<"=", "T", "=", "\n", "B", "\n">>
        Files ==
            {None,
             Some(<<"-", "-", "-", "\n", "c", ":", " ", "1", "\n", "-", "-", "-", "\n", "\n", "O", "L", "D", "\n">>),
             Some(<<"-", "-", "-", "\r", "\n", "c", ":", " ", "1", "\r", "\n", "-", "-", "-", "\r", "\n", "O", "L", "D", "\n">>),
             Some(<<"-", "-", "-", "\n", "c", ":", " ", "1", "\n", "-", "-", "-">>),
             Some(<<"-", "-", "-", "\n", "c", ":", " ", "1", "\n", "O", "L", "D", "\n">>),
             Some(<<"-", "-", "-", " ", "x", "\n", "c", "\n", "-", "-", "-", "\n">>),
             Some(<<"O", "L", "D", "\n">>),
             Some(<<"-", "-", "-", "\n", "-", "-", "-", "\n", "-", "-", "-", "\n", "O", "L", "D", "\n">>)}
        Bodies ==
            {<<"#", " ", "T", "\n", "\n", "B", "\n">>,
             <<"\n", "\r", "\n", "B", "\n">>,
             <<>>}
    IN IF s = ArticleDoc THEN Files \X BOOLEAN \X Bodies
       ELSE {<<None, FALSE, <<"#", " ", "T", "\n", "\n", "B", "\n">>>>}

Init == \E s \in Inputs : \E w \in WriteInputs(s) : Start(s) /\ StartWrite(w)

Spec == Init /\ [][Next]_vars

\* The program runs to completion once called: while it has a step to take, a
\* step is eventually taken. This is WF_vars(Next) with ENABLED <<Next>>_vars
\* written out: a step can be taken exactly while the JSON text has not been
\* refused and the Markdown file has not been written.
FairSpec ==
    Spec /\ (\/ []<>(pc = "written" \/ (pc = "deserialized" /\ ~back.val.ok))
             \/ []<><<Next>>_vars)

----------------------------------------------------------------------------
(* Properties of the block driver *)

\* The branches of the main loop that hand the line to a block handler
HandlerKinds == {"table", "code_block", "leading_space", "list"}

\* The branches of the main loop that start a block or a category from the line
BlockKinds ==
    {"category", "references", "magic_word", "horizontal_rule", "heading",
     "table", "table_raw", "code_block", "leading_space", "list"}

\* The branches of the main loop: the last turn took line step.at
MainKinds == BlockKinds \cup {"blank", "paragraph", "skip"}

\* A turn of the main loop moves the index forward: to the index the handler
\* returned when that lies ahead, by one line otherwise
C2_TurnAdvances ==
    (pc = "main" /\ pc' = "main") =>
        /\ i' > i
        /\ i' <= Len(lines)
        /\ i' = (IF step'.ret.some /\ step'.ret.val > i THEN step'.ret.val ELSE i + 1)

\* C2: parse_document terminates on every input: every turn of the main loop
\* strictly increases the line index (to the handler's returned index when that
\* is greater than the current index, by a forced advance of exactly one line
\* otherwise), and the loop stops when the index reaches the number of lines.
C2_Terminates ==
    /\ [][C2_TurnAdvances]_vars
    /\ [](pc = "done" => i = Len(lines))
    /\ <>(pc = "done")

\* A handler returned an index that is not ahead and the driver moved one line on
C2_ForcedAdvance ==
    /\ pc = "main"
    /\ step.kind \in HandlerKinds
    /\ step.ret.val <= step.at
    /\ i = step.at + 1

LineAt(pos) == CHOOSE k \in 1..Len(lines) : lines[k].start <= pos /\ pos <= lines[k].end

\* C4: when a <pre> or <syntaxhighlight> block is opened and closed on one
\* line and text follows the closing tag on that line, the parse ends, the
\* result holds the CodeBlock, and a later block covers the text after the tag.
C4_TailPreserved ==
    pc = "done" =>
        \A k \in 1..Len(blocks) :
            (/\ blocks[k].type = "code_block"
             /\ blocks[k].block.kind # "leading_space"
             /\ blocks[k].span[2] < lines[LineAt(blocks[k].span[1])].end
             /\ Trim(Slice(src, blocks[k].span[2],
                           lines[LineAt(blocks[k].span[1])].end)) # <<>>)
            => \E m \in (k + 1)..Len(blocks) :
                  /\ blocks[m].span[1] <= blocks[k].span[2]
                                           + LeadCount(From(src, blocks[k].span[2]), WhiteChars)
                  /\ blocks[m].span[2] >= lines[LineAt(blocks[k].span[1])].start
                        + Len(TrimEnd(LineRaw(src, lines[LineAt(blocks[k].span[1])])))

\* C5: a pathological run of opening delimiters without a closer (here a run
\* of MaxRun "{" or "[", the longest of the model) makes the inline parser emit
\* a diagnostic with code wikitext.inline.pathological_delim_run and keep the
\* run as literal text: the Paragraph holds exactly one Text node.
C5_RunDiagnosed ==
    (pc = "done" /\ src \in {Repeat("{", MaxRun), Repeat("[", MaxRun)}) =>
        /\ \E d \in 1..Len(diagnostics) :
              diagnostics[d].code = Some("wikitext.inline.pathological_delim_run")
        /\ Len(blocks) = 1
        /\ blocks[1].type = "paragraph"
        /\ Len(blocks[1].content) = 1
        /\ blocks[1].content[1].type = "text"

\* The text t, a line without its leading whitespace, opens the tag: "<", the
\* name in any case, then the end of the opening tag on the same line
OpensTag(t, tag) ==
    /\ StartsWith(ToLower(t), <<"<">> \o tag)
    /\ Len(t) > Len(tag) + 1
    /\ t[Len(tag) + 2] \in {">", " ", "\t", "/"}
    /\ Find(t, <<">">>) # -1

\* Line k (from 0) opens a <pre> or <syntaxhighlight> tag that nothing closes
\* in the rest of the input
OpensUnclosedTag(k) ==
    \E tag \in {PreWord, SyntaxHighlightWord} :
        /\ OpensTag(TrimStart(LineText(src, lines[k + 1])), tag)
        /\ Find(ToLower(From(src, lines[k + 1].start)), <<"<", "/">> \o tag \o <<">">>) = -1

\* C8: a line that opens a <pre> or <syntaxhighlight> tag with no closing tag
\* in the rest of the input yields exactly one Warning wikitext.codeblock.unclosed
\* for that opening and a CodeBlock with empty text that ends with the opening
\* line, and the parse resumes at the very next line.
C8_UnclosedTag ==
    (step.kind \in MainKinds /\ OpensUnclosedTag(step.at)) =>
        /\ step.kind = "code_block"
        /\ i = step.at + 1
        /\ blocks[Len(blocks)].type = "code_block"
        /\ blocks[Len(blocks)].block.text = <<>>
        /\ blocks[Len(blocks)].span[2] = lines[step.at + 1].end
        /\ Cardinality({d \in 1..Len(diagnostics) :
               /\ diagnostics[d].code = Some("wikitext.codeblock.unclosed")
               /\ diagnostics[d].severity = "warning"
               /\ diagnostics[d].span.val[1] >= lines[step.at + 1].start
               /\ diagnostics[d].span.val[1] <= lines[step.at + 1].end}) = 1

\* C9: for every non-blank line the driver meets at the start of a block,
\* is_block_start holds exactly when the driver hands the line to one of its
\* block handlers (category, references, magic word, horizontal rule, heading,
\* table, tagged code block, leading-space block, list) instead of starting a
\* paragraph.
C9_DetectorsAgree ==
    (step.kind \in MainKinds /\ step.kind # "blank") =>
        (is_block_start(src, lines[step.at + 1], LineText(src, lines[step.at + 1]))
            <=> step.kind \in BlockKinds)

\* The length of the run of "=" at the start and at the end of the text
EqLead(t) == LeadCount(t, {"="})
EqTrail(t) == Len(t) - TrailKeep(t, {"="})

\* The line without its leading blanks and tabs and its trailing whitespace
HeadingText(line) == TrimEnd(TrimStartMatches(LineRaw(src, line), {" ", "\t"}))

\* C10: a line is parsed as a Heading of level n exactly when, without its
\* leading blanks and tabs and its trailing whitespace, it begins with a run of
\* exactly n "=", 1 <= n <= 6, and ends with a separate run of exactly n "=".
C10_HeadingRuns ==
    step.kind \in MainKinds =>
        /\ step.kind = "heading" <=>
              /\ EqLead(HeadingText(lines[step.at + 1])) \in 1..6
              /\ EqTrail(HeadingText(lines[step.at + 1]))
                    = EqLead(HeadingText(lines[step.at + 1]))
              /\ 2 * EqLead(HeadingText(lines[step.at + 1]))
                    <= Len(HeadingText(lines[step.at + 1]))
        /\ step.kind = "heading" =>
              blocks[Len(blocks)].level = EqLead(HeadingText(lines[step.at + 1]))

\* C1: every span of the output of parse_document, at any depth, and every
\* span of a diagnostic satisfies 0 <= start <= end <= length of the input.
C1_SpansInBounds ==
    \A sp \in SpansOf(Struct("document"), Document)
                \cup SpansOf(Vec(Struct("diagnostic")), diagnostics) :
        0 <= sp[1] /\ sp[1] <= sp[2] /\ sp[2] <= Len(src)

\* A finished parse with a diagnostic and with a node that lies strictly inside
\* the source, after its first line
C1_InnerSpans ==
    /\ pc = "done" /\ diagnostics # <<>> /\ Len(lines) > 2
    /\ \E sp \in SpansOf(Struct("document"), Document) :
          lines[2].start <= sp[1] /\ sp[1] < sp[2] /\ sp[2] < Len(src)

\* The nesting of the List blocks under the block b
RECURSIVE ListLevels(_)
ListLevels(b) ==
    IF b.type # "list" THEN 0
    ELSE 1 + Max({0} \cup UNION {{ListLevels(b.items[k].blocks[m]) :
                                     m \in 1..Len(b.items[k].blocks)} : k \in 1..Len(b.items)})

\* The envelope of the parse result as it is read back from its JSON text
RoundTrip == [ok |-> TRUE, val |-> AstFile(Document, diagnostics)]

\* C6: the list of a line with a run of DeepRun markers is not nested DeepRun
\* levels deep, and the envelope of its parse result is read back from its
\* JSON text as it was written
C6_DepthClamped ==
    pc = "deserialized" /\ src = Repeat(":", DeepRun) \o <<"i", "t", "e", "m", "\n">> =>
        /\ back.val = RoundTrip
        /\ \A k \in 1..Len(blocks) : ListLevels(blocks[k]) < DeepRun

\* C7: the envelope of every parse result is read back from its JSON text as
\* it was written; the JSON text has no member for an Option that is None
\* (the path and the hash of the source, the redirect) and none for an empty
\* list of diagnostics or of categories
C7_RoundTrip ==
    pc = "deserialized" =>
        /\ back.val = RoundTrip
        /\ ~JsonHas(JsonGet(json.val, "source"), "path")
        /\ ~JsonHas(JsonGet(json.val, "source"), "sha256")
        /\ JsonHas(JsonGet(json.val, "document"), "redirect") <=> redirect.some
        /\ JsonHas(JsonGet(json.val, "document"), "categories") <=> categories # <<>>
        /\ JsonHas(json.val, "diagnostics") <=> diagnostics # <<>>

----------------------------------------------------------------------------
(* Properties of the table sub-parser *)

\* Line k (from 0) of the source, without its line ending and leading whitespace
TableLine(k) == line_trimmed_start(src, lines[k + 1])

\* The lines a..b that open and that close a table
OpenLines(a, b) == {k \in a..b : StartsWith(TableLine(k), <<"{", "|">>)}
CloseLines(a, b) == {k \in a..b : StartsWith(TableLine(k), <<"|", "}">>)}

\* The "|}" lines that match the "{|" of line start: as many tables were opened
\* as were closed between the two
MatchingCloses(start) ==
    {k \in CloseLines(start + 1, Len(lines) - 1) :
        Cardinality(OpenLines(start + 1, k - 1)) = Cardinality(CloseLines(start + 1, k - 1))}

\* C11: parse_table returns a Table only together with the index of the line
\* just after the "|}" that matches its "{|"; when the input ends without a
\* matching "|}" the driver adds a Raw block and a Warning instead of a Table.
C11_TableClosed ==
    /\ step.kind = "table" =>
          /\ MatchingCloses(step.at) # {}
          /\ step.ret.val = Min(MatchingCloses(step.at)) + 1
    /\ (step.kind \in {"table", "table_raw"} /\ MatchingCloses(step.at) = {}) =>
          /\ step.kind = "table_raw"
          /\ blocks[Len(blocks)].type = "raw"
          /\ diagnostics[Len(diagnostics)].severity = "warning"

\* The states of parse_table at the head of its loop, from st to the state it
\* leaves the loop in
RECURSIVE TableStates(_, _, _)
TableStates(s, lns, st) ==
    IF st.i >= Len(lns) \/ st.closed THEN <<st>>
    ELSE <<st>> \o TableStates(s, lns, TableStep(s, lns, st))

\* The states parse_table went through for the table of the last turn
TableRun == TableStates(src, lines, TableInit(src, lines, step.at))

\* The line that parse_table reads in the state st, without its "\r"
TableRaw(st) == LineText(src, lines[st.i + 1])

\* The text of a cell after the line raw was copied into it
Copied(content, raw) == IF content = <<>> THEN raw ELSE content \o <<"\n">> \o raw

\* The turn of the loop from the state a to the state b keeps the count of the
\* nesting: up at a "{|" line, down at a "|}" line above depth 1, the end of the
\* table at a "|}" line at depth 1, and unchanged at any other line
DepthCounted(a, b) ==
    LET opens == StartsWith(TableLine(a.i), <<"{", "|">>)
        closes == StartsWith(TableLine(a.i), <<"|", "}">>)
    IN /\ a.depth >= 1 /\ b.depth >= 1
       /\ b.depth = (IF opens THEN a.depth + 1
                     ELSE IF closes /\ a.depth > 1 THEN a.depth - 1 ELSE a.depth)
       /\ b.closed <=> (closes /\ a.depth = 1)
       /\ b.i = a.i + 1

\* The turn from a to b at a line inside a nested table: the line is added to
\* the text of the open cell, if there is one, and nothing else changes
NestedCopied(a, b) ==
    /\ b.table = a.table
    /\ b.current_row = a.current_row
    /\ b.diags = a.diags
    /\ b.current_cell.some = a.current_cell.some
    /\ a.current_cell.some =>
          /\ b.current_cell.val.content = Copied(a.current_cell.val.content, TableRaw(a))
          /\ b.current_cell.val.kind = a.current_cell.val.kind
          /\ b.current_cell.val.attrs = a.current_cell.val.attrs
          /\ b.current_cell.val.span_start = a.current_cell.val.span_start

CellLine(st) ==
    /\ st.depth = 1
    /\ StartsWith(TableLine(st.i), <<"!">>) \/ StartsWith(TableLine(st.i), <<"|">>)
    /\ \A m \in {<<"|", "}">>, <<"|", "+">>, <<"|", "-">>} : ~StartsWith(TableLine(st.i), m)

\* The text of the segments of the cell line that the state st reads
CellSegments(st) ==
    LET rest == From(TableLine(st.i), 1)
        segments == split_cell_segments(rest, IF StartsWith(TableLine(st.i), <<"!">>)
                                              THEN <<"!", "!">> ELSE <<"|", "|">>)
    IN [k \in 1..Len(segments) |-> Slice(rest, segments[k].start, segments[k].end)]

\* The attributes and the content of a cell segment as the table grammar has
\* them: split at the first separator only when "=" stands left of it
AttrsWithEq(seg_str) ==
    LET pipe_pos == find_attr_separator(seg_str)
    IN IF pipe_pos # -1 /\ "=" \in Chars(Slice(seg_str, 0, pipe_pos))
       THEN [attrs |-> parse_html_attrs(Trim(Slice(seg_str, 0, pipe_pos))),
             content |-> TrimStart(From(seg_str, pipe_pos + 1))]
       ELSE [attrs |-> <<>>, content |-> TrimStart(seg_str)]

\* C13: a cell segment is split into attributes and content at its first "|"
\* outside quotes, {{...}} and [[...]] only when the text left of that "|"
\* contains "="; otherwise the whole segment is the content of the cell and
\* the cell has no attributes.
C13_AttrsNeedEq ==
    step.kind = "table" =>
        \A k \in 1..(Len(TableRun) - 1) :
            CellLine(TableRun[k]) =>
                LET seg_str == CellSegments(TableRun[k])[Len(CellSegments(TableRun[k]))]
                    cell == TableRun[k + 1].current_cell.val
                IN /\ cell.attrs = AttrsWithEq(seg_str).attrs
                   /\ cell.content = AttrsWithEq(seg_str).content

\* The markers of the table grammar at the start of a line
TableMarkers == {<<"{", "|">>, <<"|", "}">>, <<"|", "+">>, <<"|", "-">>, <<"!">>, <<"|">>}

\* The turn from a to b added the line to the text of the open cell
LineAppended(a, b) ==
    /\ a.current_cell.some /\ b.current_cell.some
    /\ b.current_cell.val.content = Copied(a.current_cell.val.content, TableRaw(a))

\* The turn from a to b added one Warning wikitext.table.unexpected_line
LineWarned(a, b) ==
    /\ Len(b.diags) = Len(a.diags) + 1
    /\ SubSeq(b.diags, 1, Len(a.diags)) = a.diags
    /\ b.diags[Len(b.diags)].severity = "warning"
    /\ b.diags[Len(b.diags)].code = Some("wikitext.table.unexpected_line")

\* C14: every line inside a table that is not empty starts with a marker of
\* the table grammar, or is added to the text of the open cell, or gives
\* exactly one Warning wikitext.table.unexpected_line; in each case
\* parse_table goes on with the next line.
C14_LinesAccounted ==
    step.kind = "table" =>
        \A k \in 1..(Len(TableRun) - 1) :
            TableLine(TableRun[k].i) # <<>> =>
                /\ TableRun[k + 1].i = TableRun[k].i + 1
                /\ \/ \E m \in TableMarkers : StartsWith(TableLine(TableRun[k].i), m)
                   \/ LineAppended(TableRun[k], TableRun[k + 1])
                   \/ LineWarned(TableRun[k], TableRun[k + 1])

\* The separator of the cells of the line that the state st reads, and their kind
CellSep(st) == IF StartsWith(TableLine(st.i), <<"!">>) THEN <<"!", "!">> ELSE <<"|", "|">>
CellKind(st) == IF StartsWith(TableLine(st.i), <<"!">>) THEN "header" ELSE "data"

\* The offset p of text lies outside {{...}} and [[...]]: as many of each were
\* opened as were closed before it
Outside(text, p) ==
    /\ Cardinality({q \in 0..(p - 1) : StartsAt(text, q, <<"{", "{">>)})
         = Cardinality({q \in 0..(p - 1) : StartsAt(text, q, <<"}", "}">>)})
    /\ Cardinality({q \in 0..(p - 1) : StartsAt(text, q, <<"[", "[">>)})
         = Cardinality({q \in 0..(p - 1) : StartsAt(text, q, <<"]", "]">>)})

\* The segments segs with the separator sep between them
RECURSIVE Joined(_, _)
Joined(segs, sep) ==
    IF Len(segs) = 1 THEN segs[1] ELSE segs[1] \o sep \o Joined(Tail(segs), sep)

\* The cells that the state st holds for its current row, the open cell last:
\* their kinds and the offsets they start at
HeldKinds(st) ==
    (IF st.current_row.some
     THEN [k \in 1..Len(st.current_row.val.cells) |-> st.current_row.val.cells[k].kind]
     ELSE <<>>)
        \o (IF st.current_cell.some THEN <<st.current_cell.val.kind>> ELSE <<>>)
HeldStarts(st) ==
    (IF st.current_row.some
     THEN [k \in 1..Len(st.current_row.val.cells) |-> st.current_row.val.cells[k].span[1]]
     ELSE <<>>)
        \o (IF st.current_cell.some THEN <<st.current_cell.val.span_start>> ELSE <<>>)

\* The turn from a to b at a "!" or "|" line: its text after the marker is cut
\* at the separators outside {{...}} and [[...]], and the current row gets one
\* cell of the kind of the line for each segment, in the order of the source
CellsAdded(a, b) ==
    LET segs == CellSegments(a)
        rest == From(TableLine(a.i), 1)
        AtRest(k) == Len(Joined(SubSeq(segs, 1, k), CellSep(a)))
    IN /\ Joined(segs, CellSep(a)) = rest
       /\ \A k \in 1..Len(segs) : \A p \in 0..(Len(segs[k]) - 2) :
             StartsAt(segs[k], p, CellSep(a)) => ~Outside(segs[k], p)
       /\ \A k \in 1..(Len(segs) - 1) : Outside(rest, AtRest(k))
       /\ HeldKinds(b) = HeldKinds(a) \o [k \in 1..Len(segs) |-> CellKind(a)]
       /\ Len(HeldStarts(b)) = Len(HeldKinds(b))
       /\ SubSeq(HeldStarts(b), 1, Len(HeldStarts(a))) = HeldStarts(a)
       /\ \A k \in 1..(Len(HeldStarts(b)) - 1) : HeldStarts(b)[k] < HeldStarts(b)[k + 1]
       /\ b.table = a.table

\* The turn from a to b ends the current row: the cells held for it become a
\* row of the table
RowFinished(a, b) ==
    IF HeldKinds(a) = <<>> /\ ~a.current_row.some
    THEN b.table.rows = a.table.rows
    ELSE /\ Len(b.table.rows) = Len(a.table.rows) + 1
         /\ SubSeq(b.table.rows, 1, Len(a.table.rows)) = a.table.rows
         /\ LET cells == b.table.rows[Len(b.table.rows)].cells
            IN [k \in 1..Len(cells) |-> cells[k].kind] = HeldKinds(a)

\* The turn from a to b at a "|-" line: the current cell and row are ended
\* and a new row without cells is open
RowOpened(a, b) ==
    /\ ~b.current_cell.some
    /\ b.current_row.some /\ b.current_row.val.cells = <<>>
    /\ RowFinished(a, b)

\* C15: inside a table a "!" line gives Header cells and a "|" line gives Data
\* cells, one for each segment of the line between the "!!" or "||" that lie
\* outside {{...}} and [[...]], added to the current row in the order of the
\* source; a "|-" line ends the current cell and the current row and opens a
\* new row, and the "|}" that closes the table ends them too.
C15_CellsPerSegment ==
    step.kind = "table" =>
        \A k \in 1..(Len(TableRun) - 1) :
            /\ CellLine(TableRun[k]) => CellsAdded(TableRun[k], TableRun[k + 1])
            /\ (TableRun[k].depth = 1 /\ StartsWith(TableLine(TableRun[k].i), <<"|", "-">>))
                  => RowOpened(TableRun[k], TableRun[k + 1])
            /\ (TableRun[k].depth = 1 /\ StartsWith(TableLine(TableRun[k].i), <<"|", "}">>))
                  => RowFinished(TableRun[k], TableRun[k + 1])

\* The table of the test parses_basic_table: a row of two Header cells and a
\* row of two Data cells
C15_BasicTable ==
    /\ step.kind = "table"
    /\ LET rows == blocks[Len(blocks)].table.rows
       IN /\ Len(rows) = 2
          /\ [k \in 1..Len(rows[1].cells) |-> rows[1].cells[k].kind] = <<"header", "header">>
          /\ [k \in 1..Len(rows[2].cells) |-> rows[2].cells[k].kind] = <<"data", "data">>

\* The offsets at which the cells (the rows) start that parse_table held, open
\* or in its current row, in one of the states of the run; a cell that is open
\* while no row is opens one
OpenedCells == UNION {{HeldStarts(TableRun[k])[n] : n \in 1..Len(HeldStarts(TableRun[k]))} :
                         k \in 1..Len(TableRun)}
OpenedRows ==
    {TableRun[k].current_row.val.span_start :
        k \in {j \in 1..Len(TableRun) : TableRun[j].current_row.some}}
    \cup {TableRun[k].current_cell.val.span_start :
            k \in {j \in 1..Len(TableRun) :
                      TableRun[j].current_cell.some /\ ~TableRun[j].current_row.some}}

\* The cells of the rows of the table t, row after row
RECURSIVE CellsOf(_)
CellsOf(rows) == IF rows = <<>> THEN <<>> ELSE rows[1].cells \o CellsOf(Tail(rows))

\* C27: every cell that parse_table opened is a cell of exactly one row of the
\* Table it returns, and every row it opened is a row of the Table, in the
\* order of the source, the cell and the row that are open when the table ends
\* included, at a "|}" and at the end of the input.
C27_OpenCellsKept ==
    step.kind = "table" =>
        LET rows == blocks[Len(blocks)].table.rows
            cells == CellsOf(rows)
        IN /\ {cells[n].span[1] : n \in 1..Len(cells)} = OpenedCells
           /\ \A n \in 1..(Len(cells) - 1) : cells[n].span[1] < cells[n + 1].span[1]
           /\ {rows[n].span[1] : n \in 1..Len(rows)} = OpenedRows
           /\ \A n \in 1..(Len(rows) - 1) : rows[n].span[1] < rows[n + 1].span[1]

----------------------------------------------------------------------------
(* Properties of the list handler *)

\* The items of a list in the order of the source, each with the depth of its
\* nesting: an item, then the items of the lists under it, then the next item
RECURSIVE FlatItems(_, _), FlatBlocks(_, _)
FlatItems(items, d) ==
    IF items = <<>> THEN <<>>
    ELSE <<[depth |-> d, span |-> items[1].span, marker |-> items[1].marker]>>
            \o FlatBlocks(items[1].blocks, d + 1) \o FlatItems(Tail(items), d)
FlatBlocks(bs, d) ==
    IF bs = <<>> THEN <<>>
    ELSE (IF bs[1].type = "list" THEN FlatItems(bs[1].items, d) ELSE <<>>)
            \o FlatBlocks(Tail(bs), d)

\* The items of the List block of the last turn
ListRun == FlatItems(blocks[Len(blocks)].items, 1)

\* The number of markers at the start of line k (from 0)
MarkerRun(k) == LeadCount(TrimStart(LineText(src, lines[k + 1])), MarkerChars)

\* The span of line k (from 0)
LineSpan(k) == <<lines[k + 1].start, lines[k + 1].end>>

\* C16: the nesting of a list follows the length of the runs of markers: the
\* items that stand for the lines of the list come in the order of the lines,
\* the item of a line with a run of n markers lies n lists deep, and its
\* marker is the one of the last character of the run.
C16_NestingFollowsRuns ==
    step.kind = "list" =>
        LET real == SelectSeq(ListRun, LAMBDA it : it.span[1] < it.span[2])
        IN /\ Len(real) = step.ret.val - step.at
           /\ \A k \in 1..Len(real) :
                 /\ real[k].span = LineSpan(step.at + k - 1)
                 /\ real[k].depth = MarkerRun(step.at + k - 1)
                 /\ real[k].marker =
                       ListMarkerOf(TrimStart(LineText(src, lines[step.at + k]))[real[k].depth])

\* The list of the lines "*a", "**b", "*c": one List of two items, the first
\* of them with a List of the one item b under it
C16_ThreeLines ==
    /\ src = <<"*", "a", "\n", "*", "*", "b", "\n", "*", "c", "\n">>
    /\ step.kind = "list"
    /\ Len(blocks) = 1
    /\ Len(blocks[1].items) = 2
    /\ blocks[1].items[1].span = <<0, 2>> /\ blocks[1].items[2].span = <<7, 9>>
    /\ \E m \in 1..Len(blocks[1].items[1].blocks) :
          /\ blocks[1].items[1].blocks[m].type = "list"
          /\ Len(blocks[1].items[1].blocks[m].items) = 1
          /\ blocks[1].items[1].blocks[m].items[1].span = <<3, 6>>
    /\ \A m \in 1..Len(blocks[1].items[2].blocks) : blocks[1].items[2].blocks[m].type # "list"

\* The Warnings wikitext.list.missing_parent at line k (from 0)
MissingParent(k) ==
    {n \in 1..Len(diagnostics) :
        /\ diagnostics[n].code = Some("wikitext.list.missing_parent")
        /\ diagnostics[n].severity = "warning"
        /\ diagnostics[n].span = Some(LineSpan(k))}

\* The levels above line k of a list that hold no item when the line is read:
\* those between the run of the line before it and its own run
EmptyLevels(k) ==
    {l \in 1..(MarkerRun(k) - 1) : k = step.at \/ MarkerRun(k - 1) < l}

\* C17: no line of a list is dropped: every line is exactly one item of the
\* list; for every level above a line that holds no item there is one dummy
\* item of width zero at the start of the line and one Warning
\* wikitext.list.missing_parent, and the list holds no other item.
C17_LinesKept ==
    step.kind = "list" =>
        /\ \A k \in step.at..(step.ret.val - 1) :
              /\ Cardinality({n \in 1..Len(ListRun) : ListRun[n].span = LineSpan(k)}) = 1
              /\ \A l \in 1..MarkerRun(k) :
                    Cardinality({n \in 1..Len(ListRun) :
                                    /\ ListRun[n].span = <<lines[k + 1].start, lines[k + 1].start>>
                                    /\ ListRun[n].depth = l})
                       = (IF l \in EmptyLevels(k) THEN 1 ELSE 0)
              /\ Cardinality(MissingParent(k)) = Cardinality(EmptyLevels(k))
        /\ \A n \in 1..Len(ListRun) :
              \E k \in step.at..(step.ret.val - 1) :
                 ListRun[n].span \in {LineSpan(k), <<lines[k + 1].start, lines[k + 1].start>>}

\* A list whose first line has a run of markers, with a dummy item and a
\* Warning for a level above it
C17_DummyInserted ==
    /\ step.kind = "list"
    /\ MarkerRun(step.at) > 1
    /\ blocks[Len(blocks)].items[1].span[1] = blocks[Len(blocks)].items[1].span[2]
    /\ MissingParent(step.at) # {}

----------------------------------------------------------------------------
(* Properties of the categories and of the inline parser *)

\* The offsets of the source at which a category tag starts: "[[" and, after
\* optional blanks, the word "category:" in any case
CategoryTags ==
    {p \in 0..(Len(src) - 2) :
        /\ StartsAt(src, p, <<"[", "[">>)
        /\ StartsWith(ToLower(TrimStartMatches(From(src, p + 2), {" "})), CategoryWord)}

\* C18: every category tag of the source, wherever it stands, is one
\* CategoryTag of Document.categories, in the order of the source, and is not
\* inline content of a block.
C18_CategoriesCollected ==
    pc = "done" =>
        /\ Len(categories) = Cardinality(CategoryTags)
        /\ \A k \in 1..Len(categories) :
              /\ \E p \in CategoryTags : categories[k].span[1] <= p /\ p < categories[k].span[2]
              /\ k > 1 => categories[k - 1].span[2] <= categories[k].span[1]
        /\ \A k \in 1..Len(blocks) :
              blocks[k].type = "paragraph" =>
                  \A n \in 1..Len(blocks[k].content) :
                      blocks[k].content[n].type = "internal_link"
                          => blocks[k].content[n].span[1] \notin CategoryTags

\* The offset just past the "]]" that closes the "[[" at the start of text,
\* counting the "[[" and "]]" between them, or -1 when none closes it
RECURSIVE LinkCloseLoop(_, _, _)
LinkCloseLoop(text, k, depth) ==
    IF k >= Len(text) THEN -1
    ELSE IF StartsAt(text, k, <<"[", "[">>) THEN LinkCloseLoop(text, k + 2, depth + 1)
    ELSE IF StartsAt(text, k, <<"]", "]">>)
         THEN IF depth = 1 THEN k + 2 ELSE LinkCloseLoop(text, k + 2, depth - 1)
    ELSE LinkCloseLoop(text, k + 1, depth)
LinkClose(text) == LinkCloseLoop(text, 0, 0)

\* C19: a "[[...]]" link ends at the "]]" that matches its "[[", the "[[...]]"
\* nested in it counted; a "[[File:...]]" with an internal link in its caption,
\* inside a <ref> for one, is one FileLink node.
C19_LinksMatched ==
    pc = "done" =>
        /\ \A k \in 1..Len(blocks) :
              blocks[k].type = "paragraph" =>
                  \A n \in 1..Len(blocks[k].content) :
                      blocks[k].content[n].type \in {"internal_link", "file_link"} =>
                          blocks[k].content[n].span[2] - blocks[k].content[n].span[1]
                              = LinkClose(From(src, blocks[k].content[n].span[1]))
        /\ (StartsWith(src, <<"[", "[", "F", "i", "l", "e", ":">>) /\ LinkClose(src) = Len(src)) =>
              /\ Len(blocks) = 1 /\ Len(blocks[1].content) = 1
              /\ blocks[1].content[1].type = "file_link"
              /\ blocks[1].content[1].span = <<0, Len(src)>>

\* The offsets of the paragraph b at which the scan of its text stands: those
\* that lie inside no node of its content but a Text node
ScanPoints(b) ==
    {p \in b.span[1]..(b.span[2] - 1) :
        \A n \in 1..Len(b.content) :
            (b.content[n].span[1] < p /\ p < b.span[2] /\ p < b.content[n].span[2])
                => b.content[n].type = "text"}

\* A <ref ...> tag opens at the offset p of the paragraph b, is not
\* self-closing, and no </ref> follows it in the paragraph
UnclosedRefAt(b, p) ==
    LET rem == Slice(src, p, b.span[2])
        open_end == Find(rem, <<">">>)
    IN /\ StartsWith(ToLower(rem), <<"<", "r", "e", "f">>)
       /\ open_end # -1
       /\ ~EndsWith(TrimEnd(Slice(rem, 0, open_end + 1)), <<"/", ">">>)
       /\ Find(ToLower(From(rem, open_end + 1)), <<"<", "/", "r", "e", "f", ">">>) = -1

\* The Warnings wikitext.ref.unclosed for the tag at the offset p
UnclosedWarnings(p) ==
    {n \in 1..Len(diagnostics) :
        /\ diagnostics[n].code = Some("wikitext.ref.unclosed")
        /\ diagnostics[n].severity = "warning"
        /\ diagnostics[n].span.val[1] = p}

\* The nodes of the content of the paragraph b lie end to end over its text
ContentTiles(b) ==
    /\ b.content # <<>>
    /\ b.content[1].span[1] = b.span[1]
    /\ b.content[Len(b.content)].span[2] = b.span[2]
    /\ \A n \in 1..(Len(b.content) - 1) : b.content[n].span[2] = b.content[n + 1].span[1]

\* C20: a <ref ...> tag that the scan of a paragraph meets and that no </ref>
\* follows gives exactly one Warning wikitext.ref.unclosed and no Ref node; the
\* tag and the text after it stay in the content of the paragraph, the tag as
\* text and the rest as the text and the inline forms it holds.
C20_UnclosedRef ==
    pc = "done" =>
        \A k \in 1..Len(blocks) :
            blocks[k].type = "paragraph" =>
                \A p \in ScanPoints(blocks[k]) :
                    UnclosedRefAt(blocks[k], p) =>
                        /\ Cardinality(UnclosedWarnings(p)) = 1
                        /\ \A n \in 1..Len(blocks[k].content) :
                              blocks[k].content[n].type = "ref"
                                  => blocks[k].content[n].span[1] # p
                        /\ \E n \in 1..Len(blocks[k].content) :
                              /\ blocks[k].content[n].type = "text"
                              /\ blocks[k].content[n].span[1] <= p
                              /\ p < blocks[k].content[n].span[2]
                        /\ ContentTiles(blocks[k])

\* A paragraph with an unclosed <ref> tag that was met by the scan, and an
\* inline form that was parsed after it
C20_ScanWentOn ==
    /\ pc = "done"
    /\ \E k \in 1..Len(blocks) :
          /\ blocks[k].type = "paragraph"
          /\ \E p \in ScanPoints(blocks[k]) :
                /\ UnclosedRefAt(blocks[k], p)
                /\ \E n \in 1..Len(blocks[k].content) :
                      /\ blocks[k].content[n].type # "text"
                      /\ blocks[k].content[n].span[1] > p

----------------------------------------------------------------------------
(* Properties of the block handlers and of the redirect *)

\* Line k (from 0) is blank
BlankAt(k) == Trim(LineText(src, lines[k + 1])) = <<>>

\* C21: a leading-space block is not ended by blank lines that a line with a
\* leading space follows: the block goes on over the blank lines, so no such
\* run of lines stands at the index the handler returns.
C21_BlankLinesKept ==
    step.kind = "leading_space" =>
        ~\E m \in step.ret.val..(Len(lines) - 1) :
            /\ StartsWith(LineText(src, lines[m + 1]), <<" ">>)
            /\ m > step.ret.val
            /\ \A j \in step.ret.val..(m - 1) : BlankAt(j)

\* The offset just past the "}}" that closes the "{{" at the start of text,
\* counting the "{{" and "}}" between them, or -1 when none closes it
RECURSIVE BraceCloseLoop(_, _, _)
BraceCloseLoop(text, k, depth) ==
    IF k >= Len(text) THEN -1
    ELSE IF StartsAt(text, k, <<"{", "{">>) THEN BraceCloseLoop(text, k + 2, depth + 1)
    ELSE IF StartsAt(text, k, <<"}", "}">>)
         THEN IF depth = 1 THEN k + 2 ELSE BraceCloseLoop(text, k + 2, depth - 1)
    ELSE BraceCloseLoop(text, k + 1, depth)
BraceClose(text) == BraceCloseLoop(text, 0, 0)

\* The offset q of text lies inside a "{{...}}" or a "[[...]]" of text
Nested(text, q) ==
    \E a \in 0..(q - 1) :
        \/ /\ StartsAt(text, a, <<"{", "{">>)
           /\ BraceClose(From(text, a)) # -1
           /\ q < a + BraceClose(From(text, a))
        \/ /\ StartsAt(text, a, <<"[", "[">>)
           /\ LinkClose(From(text, a)) # -1
           /\ q < a + LinkClose(From(text, a))

\* The Template nodes of the content of the paragraphs
Templates ==
    UNION {{blocks[k].content[n] :
                n \in {m \in 1..Len(blocks[k].content) :
                          blocks[k].content[m].type = "template"}} :
            k \in {j \in 1..Len(blocks) : blocks[j].type = "paragraph"}}

\* The parameter p of the template t lies between two "|" of t, or the last
\* "|" and the "}}", that lie in no "{{...}}" and no "[[...]]" inside t
ParamDelimited(t, p) ==
    LET inner == Slice(src, t.span[1] + 2, t.span[2] - 2)
        from == p.span[1] - (t.span[1] + 2)
        to == p.span[2] - (t.span[1] + 2)
    IN /\ 0 < from /\ from <= to /\ to <= Len(inner)
       /\ inner[from] = "|" /\ ~Nested(inner, from - 1)
       /\ to < Len(inner) => (inner[to + 1] = "|" /\ ~Nested(inner, to))

\* The name of the parameter p is the text before an "=" of p that lies in no
\* "{{...}}" and no "[[...]]" of p
ParamNamed(p) ==
    LET text == Slice(src, p.span[1], p.span[2])
    IN p.name.some =>
           \E q \in 0..(Len(text) - 1) :
               /\ text[q + 1] = "="
               /\ ~Nested(text, q)
               /\ p.name.val = Trim(Slice(text, 0, q))

\* The parameter p is one "{{...}}" and nothing else
ParamIsTemplate(p) ==
    LET text == Trim(Slice(src, p.span[1], p.span[2]))
    IN StartsWith(text, <<"{", "{">>) /\ BraceClose(text) = Len(text)

\* C22: a template ends at the "}}" that brings the count of "{{" and "}}" back
\* to zero; its parameters are separated by the "|" that lie in no "{{...}}"
\* and no "[[...]]" nested in it, and named by an "=" that lies in none; a
\* "{{...}}" that is a whole parameter is one Template node of its value.
C22_TemplateDelimited ==
    pc = "done" =>
        \A t \in Templates :
            /\ StartsAt(src, t.span[1], <<"{", "{">>)
            /\ t.span[2] - t.span[1] = BraceClose(From(src, t.span[1]))
            /\ t.name.kind = "template" =>
                  \A n \in 1..Len(t.params) :
                      /\ ParamDelimited(t, t.params[n])
                      /\ ParamNamed(t.params[n])
                      /\ ParamIsTemplate(t.params[n]) =>
                            /\ ~t.params[n].name.some
                            /\ Len(t.params[n].value) = 1
                            /\ t.params[n].value[1].type = "template"
                            /\ t.params[n].value[1].span[2] - t.params[n].value[1].span[1]
                                  = Len(Trim(Slice(src, t.params[n].span[1],
                                                   t.params[n].span[2])))

\* A template with a parameter that is a template with a "|" and an "=" of its
\* own
C22_NestedTemplate ==
    /\ pc = "done"
    /\ \E t \in Templates :
          \E n \in 1..Len(t.params) :
              /\ ParamIsTemplate(t.params[n])
              /\ Len(t.params[n].value) = 1
              /\ t.params[n].value[1].type = "template"
              /\ \E m \in 1..Len(t.params[n].value[1].params) :
                    t.params[n].value[1].params[m].name.some

\* The detectors of the main loop in their order of precedence, each with what
\* it says of the line k
Accepts(k) ==
    LET line == lines[k + 1]
        text == LineText(src, line)
    IN <<try_parse_category(line, text).some,
         try_parse_references(line, text).some,
         try_parse_magic_word(Trim(text)).some,
         Trim(text) = RuleText,
         try_parse_heading(src, line).some,
         StartsWith(line_trimmed_start(src, line), <<"{", "|">>),
         try_parse_code_block(src, lines, k).some,
         StartsWith(text, <<" ">>),
         is_list_line(text)>>

\* The branch of each detector and the type of the block it gives
DetectorKinds ==
    <<"category", "references", "magic_word", "horizontal_rule", "heading", "table",
      "code_block", "leading_space", "list">>
DetectorTypes ==
    <<"category", "references", "magic_word", "horizontal_rule", "heading", "table",
      "code_block", "code_block", "list">>

\* The first detector that accepts the line k, or 0
FirstAccepting(k) ==
    IF \E n \in 1..Len(Accepts(k)) : Accepts(k)[n]
    THEN CHOOSE n \in 1..Len(Accepts(k)) :
             Accepts(k)[n] /\ \A m \in 1..(n - 1) : ~Accepts(k)[m]
    ELSE 0

\* The last turn of the main loop started a block at a line that is not blank
BlockStarted ==
    step.kind \in {"category", "references", "magic_word", "horizontal_rule", "heading",
                   "table", "table_raw", "code_block", "leading_space", "list",
                   "paragraph", "skip"}

\* C23: the line at the start of a block goes to the first of the detectors
\* category, references, magic word, horizontal rule, heading, table, tagged
\* code block, leading space, list that accepts it, and to the paragraph when
\* none does; the block that is added has the kind of that detector.
C23_FixedPrecedence ==
    BlockStarted =>
        LET first == FirstAccepting(step.at)
        IN IF first = 0 THEN step.kind \in {"paragraph", "skip"}
           ELSE /\ step.kind = DetectorKinds[first]
                /\ IF first = 1
                   THEN /\ categories # <<>>
                        /\ categories[Len(categories)].span[1] = lines[step.at + 1].start
                   ELSE /\ blocks # <<>>
                        /\ blocks[Len(blocks)].type = DetectorTypes[first]
                        /\ blocks[Len(blocks)].span[1] >= lines[step.at + 1].start
                        /\ blocks[Len(blocks)].span[1] <= lines[step.at + 1].end

\* A line with a space before a list marker became a code block
C23_SpaceBeforeMarker ==
    /\ step.kind = "leading_space"
    /\ is_list_line(TrimStart(LineText(src, lines[step.at + 1])))
    /\ blocks[Len(blocks)].type = "code_block"

\* The lines that are not blank
NonBlank == {k \in 0..(Len(lines) - 1) : ~BlankAt(k)}

\* The text of the line k after its leading blanks starts with "#redirect" in
\* any case
RedirectLine(k) ==
    StartsWith(ToLower(TrimStart(LineText(src, lines[k + 1]))),
               <<"#", "r", "e", "d", "i", "r", "e", "c", "t">>)

\* The offsets of the "[[" and of the "]]" of the first "[[...]]" of the line k
LinkTargets(k) ==
    {pq \in (lines[k + 1].start..lines[k + 1].end) \X (lines[k + 1].start..lines[k + 1].end) :
        /\ pq[1] + 2 <= pq[2] /\ pq[2] + 2 <= lines[k + 1].end
        /\ StartsAt(src, pq[1], <<"[", "[">>)
        /\ StartsAt(src, pq[2], <<"]", "]">>)
        /\ \A r \in lines[k + 1].start..(pq[1] - 1) : ~StartsAt(src, r, <<"[", "[">>)
        /\ \A r \in (pq[1] + 2)..(pq[2] - 1) : ~StartsAt(src, r, <<"]", "]">>)}

\* C24: once the head of the document is read, Document.redirect is set exactly
\* when the first line that is not blank is a #REDIRECT line; it spans the
\* "[[...]]" of that line, or the whole line with an empty target when the line
\* has none; a #REDIRECT on a later line sets nothing.
C24_RedirectAtStart ==
    pc \in {"main", "done"} =>
        /\ redirect.some <=> (NonBlank # {} /\ RedirectLine(Min(NonBlank)))
        /\ redirect.some =>
              IF LinkTargets(Min(NonBlank)) = {}
              THEN /\ redirect.val.span = <<lines[Min(NonBlank) + 1].start,
                                            lines[Min(NonBlank) + 1].end>>
                   /\ redirect.val.target = <<>>
                   /\ redirect.val.anchor = None
              ELSE \E pq \in LinkTargets(Min(NonBlank)) :
                       redirect.val.span = <<pq[1], pq[2] + 2>>

\* A redirect without a "[[...]]" after blank lines, and a #REDIRECT line after
\* it that was read as a block
C24_MalformedKept ==
    /\ pc = "done"
    /\ redirect.some /\ redirect.val.target = <<>>
    /\ Min(NonBlank) > 0
    /\ \E k \in NonBlank : k > Min(NonBlank) /\ RedirectLine(k)

\* The tagged code block b ends with its closing tag: the parser gave no
\* Warning wikitext.codeblock.unclosed for it
TagClosed(b) ==
    /\ b.type = "code_block" /\ b.block.kind # "leading_space"
    /\ ~\E n \in 1..Len(diagnostics) :
           /\ diagnostics[n].code = Some("wikitext.codeblock.unclosed")
           /\ diagnostics[n].span.val[1] = b.span[1]

\* The index of the line that holds the last byte of the block b
LastLineOf(b) ==
    CHOOSE k \in 0..(Len(lines) - 1) : lines[k + 1].start < b.span[2] /\ b.span[2] <= lines[k + 1].end

\* C26: the handler of a tagged code block whose closing tag is found returns
\* the index of the line after the line of the closing tag, and no later block
\* covers a byte of the span of the code block.
C26_ClosingLineConsumed ==
    /\ (step.kind = "code_block" /\ TagClosed(blocks[Len(blocks)])) =>
           step.ret.val = LastLineOf(blocks[Len(blocks)]) + 1
    /\ \A a \in 1..Len(blocks) :
           TagClosed(blocks[a]) =>
               \A b \in (a + 1)..Len(blocks) : blocks[b].span[1] >= blocks[a].span[2]
----------------------------------------------------------------------------
(* Properties of the Markdown file *)

\* The offset just past the frontmatter block of text: its first line is "---"
\* and the block ends with the first later line that is "---"; -1 without one
FrontmatterEnd(text) ==
    LET ls == collect_lines(text)
        closing == {k \in 2..Len(ls) : LineText(text, ls[k]) = <<"-", "-", "-">>}
    IN IF ls # <<>> /\ LineText(text, ls[1]) = <<"-", "-", "-">> /\ closing # {}
       THEN ls[Min(closing)].end_with_newline
       ELSE -1

\* The Markdown file is written over a file that begins with a frontmatter
\* block, and the frontmatter is not to be regenerated
KeepingWrite ==
    /\ pc' = "written" /\ pc # "written"
    /\ md_file.some /\ FrontmatterEnd(md_file.val) # -1
    /\ ~write_opts.regenerate_frontmatter

\* The file that md_file' holds is the frontmatter block of md_file, a blank
\* line, and the rendered body without its leading line ends
FrontmatterKept ==
    KeepingWrite =>
        LET block == Slice(md_file.val, 0, FrontmatterEnd(md_file.val))
            body == TrimStartMatches(md_body, {"\n", "\r"})
            new == md_file'.val
        IN /\ StartsWith(new, block)
           /\ EndsWith(new, body)
           /\ Len(new) - Len(block) - Len(body)
                 = (IF EndsWith(block, <<"\n">>) THEN 1 ELSE 2)
           /\ \A k \in (Len(block) + 1)..(Len(new) - Len(body)) : new[k] = "\n"

\* C25: when the Markdown file exists and begins with a frontmatter block and
\* regenerate_frontmatter is not set, the file that is written starts with that
\* block byte for byte, and after it holds the newly rendered body and nothing
\* of the old one.
C25_FrontmatterKept == [][FrontmatterKept]_vars

\* A file was written that starts with the block of the file it replaced and
\* holds the new body and nothing of the old one
C25_BlockOfTheOldFile ==
    /\ pc = "written"
    /\ ~write_opts.regenerate_frontmatter
    /\ StartsWith(md_file.val, <<"-", "-", "-", "\n", "c", ":", " ", "1", "\n", "-", "-", "-", "\n">>)
    /\ Find(md_file.val, <<"O", "L", "D">>) = -1
    /\ EndsWith(md_file.val, <<"\n", "B", "\n">>)

\* Every Text node held by the value v of type ty, at any depth
RECURSIVE TextsOf(_, _)
TextsOf(ty, v) ==
    CASE ty.k \in {"scalar", "span"} -> {}
      [] ty.k = "vec" -> UNION {TextsOf(ty.of, v[k]) : k \in 1..Len(v)}
      [] ty.k = "struct" ->
           IF ty.n = "inline" /\ v.type = "text" THEN {v}
           ELSE UNION {TextsOf(PresentFields(ty.n, v)[k].ty,
                               FieldValue(PresentFields(ty.n, v)[k], v)) :
                          k \in 1..Len(PresentFields(ty.n, v))}

\* C28: the value of every Text node of the Document, at any depth, is the
\* text of the source at its span.
C28_TextIsSource ==
    pc = "done" =>
        \A t \in TextsOf(Struct("document"), Document) :
            t.value = Slice(src, t.span[1], t.span[2])

\* Every list of inline nodes held by the value v of type ty, at any depth: each
\* is what one call of parse_inlines returned
RECURSIVE InlineRunsOf(_, _)
InlineRunsOf(ty, v) ==
    CASE ty.k \in {"scalar", "span"} -> {}
      [] ty.k = "vec" ->
           (IF ty.of = Struct("inline") THEN {v} ELSE {})
               \cup UNION {InlineRunsOf(ty.of, v[k]) : k \in 1..Len(v)}
      [] ty.k = "struct" ->
           UNION {InlineRunsOf(PresentFields(ty.n, v)[k].ty,
                               FieldValue(PresentFields(ty.n, v)[k], v)) :
                     k \in 1..Len(PresentFields(ty.n, v))}

\* The nodes of the list run lie end to end, none is empty, and no Text node
\* follows a Text node
RunTiles(run) ==
    /\ \A n \in 1..Len(run) : run[n].span[1] < run[n].span[2]
    /\ \A n \in 1..(Len(run) - 1) :
          /\ run[n].span[2] = run[n + 1].span[1]
          /\ ~(run[n].type = "text" /\ run[n + 1].type = "text")
    /\ \A n \in 1..Len(run) : run[n].type = "text" => run[n].value # <<>>

\* C29: the nodes that one call of parse_inlines returns lie end to end in the
\* order of the source, from the start of the slice to its end (for the text
\* of a paragraph: from the start of its span to the end); no Text node is
\* empty and no two Text nodes are neighbours.
C29_InlinesTile ==
    pc = "done" =>
        /\ \A run \in InlineRunsOf(Struct("document"), Document) : RunTiles(run)
        /\ \A k \in 1..Len(blocks) :
              (blocks[k].type = "paragraph" /\ blocks[k].span[1] < blocks[k].span[2]) =>
                  ContentTiles(blocks[k])

\* A paragraph that does not start at offset 0 with a Text node between two
\* nodes that are not Text
C29_TextBetweenNodes ==
    /\ pc = "done"
    /\ \E k \in 1..Len(blocks) :
          /\ blocks[k].type = "paragraph" /\ blocks[k].span[1] > 0
          /\ \E n \in 2..(Len(blocks[k].content) - 1) :
                /\ blocks[k].content[n].type = "text"
                /\ blocks[k].content[n - 1].type # "text"
                /\ blocks[k].content[n + 1].type # "text"

\* The name of the tag that an inline node of the type stands for
TagNameOf(type) ==
    CASE type = "line_break" -> <<"b", "r">>
      [] type = "ref" -> <<"r", "e", "f">>
      [] type = "html_tag" -> <<"s", "p", "a", "n">>

\* The text starts with "<" and the name, in any case, and a blank, a "/" or a
\* ">" follows the name
TagNamed(text, name) ==
    /\ StartsWith(ToLower(text), <<"<">> \o name)
    /\ Len(text) > Len(name) + 1
    /\ text[Len(name) + 2] \in WhiteChars \cup {"/", ">"}

\* C30: a LineBreak node stands only where a "br" tag starts, a Ref node only
\* where a "ref" tag starts and an HtmlTag node only where a "span" tag starts:
\* the name is followed by a blank, a "/" or a ">", so a tag with a longer
\* name, as <references/> or <brown>, gives none of them.
C30_TagNamesExact ==
    pc = "done" =>
        \A run \in InlineRunsOf(Struct("document"), Document) :
            \A n \in 1..Len(run) :
                run[n].type \in {"line_break", "ref", "html_tag"} =>
                    TagNamed(From(src, run[n].span[1]), TagNameOf(run[n].type))

====
